---- MODULE Spec2Model ----
(***************************************************************************)
(* Telegram scheduled-messages bot (Google Apps Script).                   *)
(*                                                                         *)
(* The model follows sendScheduledMessages and the functions it calls      *)
(* (detectDuplicateContent, validateMessage, checkRateLimit,               *)
(* incrementRateLimit).  Text is a sequence of one-character strings, an   *)
(* instant is a number of seconds since 1970-01-01T00:00:00 in the script  *)
(* (the getters of Date give the local time of a zone with daylight       *)
(* saving), a JavaScript Date is a record [isNull, valid, t] where         *)
(* valid = FALSE is the Invalid Date.                                      *)
(***************************************************************************)
EXTENDS Integers, Sequences, FiniteSets, TLC

\* The calls of validateMessage made on their own: how many, how many of
\* them repeat the first, the message of the first call with its first and
\* its latest verdict, and the lastIndex the latest call left in each of its
\* pattern objects
VARIABLE calls

\* The lists of the configuration section the script runs with:
\* REQUIRED_KEYWORDS, BLOCKED_DOMAINS and ALLOWED_DOMAINS
VARIABLE config

\* The runs of debugTest: how many, and what the latest one reported for each
\* analysed entry and which chat each of its analysis messages went to
VARIABLE debug

(***************************************************************************)
(* Text                                                                    *)
(***************************************************************************)

UpperChars ==
    << "A", "B", "C", "D", "E", "F", "G", "H", "I", "J", "K", "L", "M",
       "N", "O", "P", "Q", "R", "S", "T", "U", "V", "W", "X", "Y", "Z" >>

LowerChars ==
    << "a", "b", "c", "d", "e", "f", "g", "h", "i", "j", "k", "l", "m",
       "n", "o", "p", "q", "r", "s", "t", "u", "v", "w", "x", "y", "z" >>

DigitChars == { "0", "1", "2", "3", "4", "5", "6", "7", "8", "9" }

\* /[A-Z]/
IsUpper(c) == \E k \in 1..26 : UpperChars[k] = c

\* /[a-zA-Z]/
IsLetter(c) == \E k \in 1..26 : UpperChars[k] = c \/ LowerChars[k] = c

\* A Message cell that holds the number 42 and no text
MsgNumber == << "NUMBER_42" >>

\* typeof message === 'string'
IsString(message) == message # MsgNumber

\* /\d/
IsDigit(c) == c \in DigitChars

\* /\s/
IsSpace(c) == c \in { " ", "\n", "\t" }

\* String.prototype.toLowerCase, one character
LowerChar(c) ==
    IF IsUpper(c) THEN LowerChars[CHOOSE k \in 1..26 : UpperChars[k] = c]
                  ELSE c

\* String.prototype.toLowerCase
toLowerCase(s) == [k \in 1..Len(s) |-> LowerChar(s[k])]

\* s.substring(a - 1, b) with the 1-based positions a..b
Slice(s, a, b) == IF a > b THEN << >> ELSE SubSeq(s, a, b)

\* String.prototype.startsWith
startsWith(s, prefix) ==
    Len(prefix) <= Len(s) /\ Slice(s, 1, Len(prefix)) = prefix

\* String.prototype.endsWith
endsWith(s, suffix) ==
    Len(suffix) <= Len(s) /\ Slice(s, Len(s) - Len(suffix) + 1, Len(s)) = suffix

\* String.prototype.includes
includes(s, sub) ==
    \E k \in 1..(Len(s) - Len(sub) + 1) : Slice(s, k, k + Len(sub) - 1) = sub

\* String.prototype.trim
trim(s) ==
    LET keep == { k \in 1..Len(s) : ~IsSpace(s[k]) }
    IN  IF keep = {} THEN << >>
        ELSE Slice(s, CHOOSE k \in keep : \A j \in keep : k <= j,
                      CHOOSE k \in keep : \A j \in keep : j <= k)

\* s.replace(/\s+/g, ' '): every maximal run of white space becomes one space
RECURSIVE CollapseFrom(_, _)
CollapseFrom(s, k) ==
    IF k > Len(s) THEN << >>
    ELSE IF IsSpace(s[k])
         THEN IF k > 1 /\ IsSpace(s[k - 1])
              THEN CollapseFrom(s, k + 1)
              ELSE << " " >> \o CollapseFrom(s, k + 1)
         ELSE << s[k] >> \o CollapseFrom(s, k + 1)

collapseWhitespace(s) == CollapseFrom(s, 1)

\* s.replace(/\s+/g, ''): white space removed
removeWhitespace(s) == SelectSeq(s, LAMBDA c : ~IsSpace(c))

(***************************************************************************)
(* Dates                                                                   *)
(***************************************************************************)

SecondsPerMinute == 60
SecondsPerHour == 3600
SecondsPerDay == 86400

\* Days since 1970-01-01 of a number of seconds
EpochDay(t) == t \div SecondsPerDay

\* Civil date of a day number (proleptic Gregorian calendar)
Civil(z0) ==
    LET z   == z0 + 719468
        era == z \div 146097
        doe == z - era * 146097
        yoe == (doe - doe \div 1460 + doe \div 36524 - doe \div 146096) \div 365
        doy == doe - (365 * yoe + yoe \div 4 - yoe \div 100)
        mp  == (5 * doy + 2) \div 153
        d   == doy - (153 * mp + 2) \div 5 + 1
        m   == IF mp < 10 THEN mp + 3 ELSE mp - 9
        y   == yoe + era * 400 + (IF m <= 2 THEN 1 ELSE 0)
    IN  [year |-> y, month |-> m - 1, date |-> d]

\* The getters of Date answer in the script's time zone, a project setting.
\* The model takes a zone with daylight saving time whose summer time is UTC
\* and whose winter time is an hour behind (Atlantic/Azores).  Winter of
\* 2023/24: from 2023-10-29 01:00 UTC to 2024-03-31 01:00 UTC; the model's
\* other dates lie in the summers before and after.
WinterBegin == 19659 * SecondsPerDay + SecondsPerHour

WinterEnd == 19813 * SecondsPerDay + SecondsPerHour

\* Seconds to add to an instant to read its local date and time
TimezoneOffset(t) == IF t >= WinterBegin /\ t < WinterEnd THEN 0 - SecondsPerHour ELSE 0

LocalTime(t) == t + TimezoneOffset(t)

\* Date.prototype.getFullYear / getMonth (0-based) / getDate / getDay (0 = Sunday)
getFullYear(t) == Civil(EpochDay(LocalTime(t))).year
getMonth(t) == Civil(EpochDay(LocalTime(t))).month
getDate(t) == Civil(EpochDay(LocalTime(t))).date
getDay(t) == (EpochDay(LocalTime(t)) + 4) % 7
getHours(t) == (LocalTime(t) % SecondsPerDay) \div SecondsPerHour
getMinutes(t) == (LocalTime(t) % SecondsPerHour) \div SecondsPerMinute

\* The begin of the clock hour of an instant
HourOf(t) == t - (t % SecondsPerHour)

\* date.setSeconds(0, 0)
setSecondsZero(t) == t - (t % SecondsPerMinute)

(***************************************************************************)
(* Configuration                                                           *)
(***************************************************************************)

ALLOWED_DOMAINS == << >>

BLOCKED_DOMAINS ==
    << <<"b", "i", "t", ".", "l", "y">>,
       <<"t", "i", "n", "y", "u", "r", "l", ".", "c", "o", "m">>,
       <<"t", ".", "c", "o">>,
       <<"g", "o", "o", ".", "g", "l">>,
       <<"s", "h", "o", "r", "t", ".", "l", "i", "n", "k">>,
       <<"r", "e", "b", "r", "a", "n", "d", ".", "l", "y">>,
       <<"c", "u", "t", "t", ".", "l", "y">>,
       <<"t", ".", "m", "e">> >>

STRICT_MODE == FALSE

MAX_MESSAGES_PER_HOUR == 3

MAX_MESSAGES_PER_DAY == 5

MAX_MESSAGE_LENGTH == 4096

MAX_URLS_PER_MESSAGE == 10

MAX_SUSPICIOUS_URLS == 1

SUSPICIOUS_KEYWORDS ==
    << <<"c", "l", "i", "c", "k", " ", "h", "e", "r", "e">>,
       <<"l", "i", "m", "i", "t", "e", "d", " ", "t", "i", "m", "e">>,
       <<"a", "c", "t", " ", "n", "o", "w">>,
       <<"u", "r", "g", "e", "n", "t">>,
       <<"f", "r", "e", "e", " ", "m", "o", "n", "e", "y">>,
       <<"g", "u", "a", "r", "a", "n", "t", "e", "e", "d">>,
       <<"n", "o", " ", "r", "i", "s", "k">>,
       <<"l", "i", "m", "i", "t", "e", "d", " ", "o", "f", "f", "e", "r">>,
       <<"e", "x", "c", "l", "u", "s", "i", "v", "e", " ", "d", "e", "a", "l">>,
       <<"a", "c", "t", " ", "f", "a", "s", "t">>,
       <<"d", "o", "n", "'", "t", " ", "m", "i", "s", "s", " ", "o", "u", "t">>,
       <<"o", "n", "e", " ", "t", "i", "m", "e", " ", "o", "n", "l", "y">>,
       <<"w", "i", "c", "h", "t", "i", "g", "e", "s", " ", "u", "p", "d", "a", "t", "e">>,
       <<"n", "u", "t", "z", "e", "n", " ", "s", "i", "e", " ", "d", "i", "e", " ", "g", "e", "l", "e", "g", "e", "n", "h", "e", "i", "t">>,
       <<"s", "o", "l", "a", "n", "g", "e", " ", "s", "i", "e", " ", "n", "o", "c", "h", " ", "b", "e", "s", "t", "e", "h", "t">>,
       <<"f", "i", "n", "a", "n", "z", "i", "e", "l", "l", "e", "s", " ", "w", "a", "c", "h", "s", "t", "u", "m">>,
       <<"v", "e", "r", "p", "a", "s", "s", "e", "n", " ", "s", "i", "e", " ", "s", "i", "e", " ", "n", "i", "c", "h", "t">>,
       <<"b", "e", "v", "o", "r", " ", "d", "e", "r", " ", "l", "i", "n", "k", " ", "a", "b", "l", "a_uml", "u", "f", "t">>,
       <<"e", "n", "t", "s", "c", "h", "e", "i", "d", "e", "n", "d", "e", "r", " ", "w", "e", "n", "d", "e", "p", "u", "n", "k", "t">>,
       <<"f", "i", "n", "a", "n", "z", "i", "e", "l", "l", "e", " ", "f", "r", "e", "i", "h", "e", "i", "t">>,
       <<"p", "a", "s", "s", "i", "v", "e", "s", " ", "e", "i", "n", "k", "o", "m", "m", "e", "n">>,
       <<"j", "e", "t", "z", "t", " ", "h", "a", "n", "d", "e", "l", "n">>,
       <<"b", "e", "g", "r", "e", "n", "z", "t", "e", " ", "p", "l", "a_uml", "t", "z", "e">>,
       <<"e", "x", "k", "l", "u", "s", "i", "v", "e", "s", " ", "a", "n", "g", "e", "b", "o", "t">>,
       <<"s", "c", "h", "n", "e", "l", "l", " ", "r", "e", "i", "c", "h">>,
       <<"g", "e", "l", "d", " ", "v", "e", "r", "d", "i", "e", "n", "e", "n">> >>

REQUIRE_KEYWORD_VALIDATION == TRUE

REQUIRED_KEYWORDS ==
    << <<"t", "e", "s", "t">>,
       <<"m", "o", "n", "t", "a", "g">>,
       <<"m", "o", "n", "t", "a", "g", "t", "o", "n", "t", "a", "g">>,
       <<"t", "o", "n", "t", "a", "g">>,
       <<"g", "l", "a", "s", "i", "e", "r", "t", "a", "g">>,
       <<"l", "u", "m", "a", ".", "c", "o", "m">>,
       <<"m", "e", "l", "d", "e", " ", "d", "i", "c", "h">>,
       <<"z", "e", "i", "t", "s", "l", "o", "t">>,
       <<"a", "u", "f", "b", "a", "u">>,
       <<"a", "b", "b", "a", "u">>,
       <<"s", "t", "o", "r", "n", "i", "e", "r", "e", "n">>,
       <<"f", "e", "r", "t", "i", "g", "e", "n", " ", "w", "e", "r", "k", "e">>,
       <<"h", "e", "l", "f", "e", "n", "d", "e", " ", "h", "a_uml", "n", "d", "e">>,
       <<"t", "o_uml", "p", "f", "e", "r", "n">>,
       <<"g", "l", "a", "s", "i", "e", "r", "e", "n">> >>

\* The lists as the script is shipped
ShippedConfig ==
    [REQUIRED_KEYWORDS |-> REQUIRED_KEYWORDS,
     BLOCKED_DOMAINS |-> BLOCKED_DOMAINS,
     ALLOWED_DOMAINS |-> ALLOWED_DOMAINS]

\* The script with BLOCKED_DOMAINS = [] and ALLOWED_DOMAINS = []
NoDomainLists == [ShippedConfig EXCEPT !.BLOCKED_DOMAINS = << >>]

\* The script with REQUIRED_KEYWORDS = [] and both domain lists empty
EmptyLists == [NoDomainLists EXCEPT !.REQUIRED_KEYWORDS = << >>]

(***************************************************************************)
(* Content validation                                                      *)
(***************************************************************************)

\* Variant: an empty list of required keywords requires nothing
hasRequiredKeywordsOrNone(text) ==
    IF text = << >>
    THEN [hasRequired |-> FALSE, foundKeywords |-> << >>]
    ELSE LET lowerText == toLowerCase(text)
             foundKeywords ==
                 SelectSeq(config.REQUIRED_KEYWORDS,
                           LAMBDA keyword : includes(lowerText, toLowerCase(keyword)))
         IN  [hasRequired |-> Len(foundKeywords) > 0 \/ config.REQUIRED_KEYWORDS = << >>,
              foundKeywords |-> foundKeywords]

hasRequiredKeywords(text) ==
    IF text = << >>
    THEN [hasRequired |-> FALSE, foundKeywords |-> << >>]
    ELSE LET lowerText == toLowerCase(text)
             foundKeywords ==
                 SelectSeq(config.REQUIRED_KEYWORDS,
                           LAMBDA keyword : includes(lowerText, toLowerCase(keyword)))
         IN  [hasRequired |-> Len(foundKeywords) > 0,
              foundKeywords |-> foundKeywords]

\* Last position of the run of non-white-space characters that starts at k
\* (k - 1 when there is none)
RECURSIVE NonSpaceEnd(_, _)
NonSpaceEnd(s, k) ==
    IF k > Len(s) \/ IsSpace(s[k]) THEN k - 1 ELSE NonSpaceEnd(s, k + 1)

\* Whether the lower-cased text has the word w at position k
HasAt(low, k, w) == k + Len(w) - 1 <= Len(low) /\ Slice(low, k, k + Len(w) - 1) = w

\* /https?:\/\/[^\s]+/i matches at position k
MatchHttp(s, low, k) ==
    \/ HasAt(low, k, <<"h", "t", "t", "p", ":", "/", "/">>)
       /\ NonSpaceEnd(s, k + 7) >= k + 7
    \/ HasAt(low, k, <<"h", "t", "t", "p", "s", ":", "/", "/">>)
       /\ NonSpaceEnd(s, k + 8) >= k + 8

\* /www\.[^\s]+/i matches at position k
MatchWww(s, low, k) ==
    HasAt(low, k, <<"w", "w", "w", ".">>) /\ NonSpaceEnd(s, k + 4) >= k + 4

\* Last position of the run of [a-zA-Z0-9-] that starts at k (k - 1 when none)
RECURSIVE HostRunEnd(_, _)
HostRunEnd(s, k) ==
    IF k <= Len(s) /\ (IsLetter(s[k]) \/ IsDigit(s[k]) \/ s[k] = "-")
    THEN HostRunEnd(s, k + 1)
    ELSE k - 1

\* /[a-zA-Z0-9-]+\.[a-zA-Z]{2,}[^\s]*/i matches at position k
MatchBareDomain(s, k) ==
    LET r == HostRunEnd(s, k)
    IN  /\ r >= k
        /\ r + 3 <= Len(s)
        /\ s[r + 1] = "."
        /\ IsLetter(s[r + 2])
        /\ IsLetter(s[r + 3])

\* url.replace(/[.,;:!?]+$/, '')
RECURSIVE StripTrailingPunctuation(_)
StripTrailingPunctuation(url) ==
    IF url # << >> /\ url[Len(url)] \in { ".", ",", ";", ":", "!", "?" }
    THEN StripTrailingPunctuation(Slice(url, 1, Len(url) - 1))
    ELSE url

\* The map callback of extractUrls
CleanUrl(match) ==
    LET url == StripTrailingPunctuation(match)
        withProtocol ==
            IF ~startsWith(url, <<"h", "t", "t", "p", ":", "/", "/">>)
               /\ ~startsWith(url, <<"h", "t", "t", "p", "s", ":", "/", "/">>)
            THEN <<"h", "t", "t", "p", "s", ":", "/", "/">> \o url
            ELSE url
    IN  toLowerCase(withProtocol)

\* text.match(urlPattern) from position k on: leftmost match, alternatives in
\* order, each running to the end of the non-white-space run it starts in
RECURSIVE ExtractUrlsFrom(_, _, _)
ExtractUrlsFrom(s, low, k) ==
    IF k > Len(s) THEN << >>
    ELSE IF MatchHttp(s, low, k) \/ MatchWww(s, low, k) \/ MatchBareDomain(s, k)
         THEN LET e == NonSpaceEnd(s, k)
              IN  << CleanUrl(Slice(s, k, e)) >> \o ExtractUrlsFrom(s, low, e + 1)
         ELSE ExtractUrlsFrom(s, low, k + 1)

extractUrls(text) ==
    IF text = << >> THEN << >> ELSE ExtractUrlsFrom(text, toLowerCase(text), 1)

\* text.replace(/https?:\/\/[^\s]+/gi, '') from position k on
RECURSIVE RemoveHttpUrlsFrom(_, _, _)
RemoveHttpUrlsFrom(s, low, k) ==
    IF k > Len(s) THEN << >>
    ELSE IF MatchHttp(s, low, k)
         THEN RemoveHttpUrlsFrom(s, low, NonSpaceEnd(s, k) + 1)
         ELSE << s[k] >> \o RemoveHttpUrlsFrom(s, low, k + 1)

\* Number of elements of a sequence that satisfy a test
Count(s, Test(_)) == Len(SelectSeq(s, Test))

\* EXCESSIVE_CAPS_THRESHOLD = 0.5 as the fraction CapsNum / CapsDen
EXCESSIVE_CAPS_NUM == 1

EXCESSIVE_CAPS_DEN == 2

\* capsRatio >= EXCESSIVE_CAPS_THRESHOLD for the text without URLs and spaces
CapsRatioExceeded(cleanText) ==
    IF Len(cleanText) = 0 THEN FALSE
    ELSE Count(cleanText, IsUpper) * EXCESSIVE_CAPS_DEN
             >= EXCESSIVE_CAPS_NUM * Len(cleanText)

hasExcessiveCaps(text) ==
    IF text = << >> THEN FALSE
    ELSE CapsRatioExceeded(
             removeWhitespace(RemoveHttpUrlsFrom(text, toLowerCase(text), 1)))

IsPunct(c) == c \in { "!", "?", "." }

\* Variant: the pattern object is made once and shared by all calls, so it
\* begins with the lastIndex the call before left in it
NewRegExpShared(left) == left

\* A regular expression literal with the g flag, evaluated in a function
\* body: every call makes a new object, whose lastIndex is 0 whatever the
\* object of an earlier call was left with
NewRegExp(left) == 0

\* Last position of the run of characters like the one at k that starts at k
RunEnd(text, k, Like(_)) ==
    LET stops == { j \in k..Len(text) : ~Like(text[j]) }
    IN  IF stops = {} THEN Len(text)
        ELSE (CHOOSE j \in stops : \A i \in stops : j <= i) - 1

\* /[!?.]{3,}/ matched at position k: where the match ends, 0 for no match
PunctMatchEnd(text, k) ==
    LET e == RunEnd(text, k, IsPunct)
    IN  IF e - k + 1 >= 3 THEN e ELSE 0

\* /\d{10,}/ matched at position k
DigitMatchEnd(text, k) ==
    LET e == RunEnd(text, k, IsDigit)
    IN  IF e - k + 1 >= 10 THEN e ELSE 0

\* /(.)\1{4,}/ matched at position k: one character other than a line break,
\* five or more times in a row
RepeatMatchEnd(text, k) ==
    LET e == RunEnd(text, k, LAMBDA c : c = text[k])
    IN  IF text[k] # "\n" /\ e - k + 1 >= 5 THEN e ELSE 0

\* Where the matches of the three patterns end, by the position they begin at
PunctMatchEnds(text) == [k \in 1..Len(text) |-> PunctMatchEnd(text, k)]

DigitMatchEnds(text) == [k \in 1..Len(text) |-> DigitMatchEnd(text, k)]

RepeatMatchEnds(text) == [k \in 1..Len(text) |-> RepeatMatchEnd(text, k)]

\* pattern.test(text) for a pattern with the g flag, matchEnd[k] being where
\* its match at position k ends: the search begins after lastIndex; a match
\* leaves lastIndex at its end, a failure sets it to 0
RegExpTest(text, lastIndex, matchEnd) ==
    LET found == { k \in (lastIndex + 1)..Len(text) : matchEnd[k] > 0 }
    IN  IF found = {}
        THEN [found |-> FALSE, lastIndex |-> 0]
        ELSE [found |-> TRUE,
              lastIndex |-> matchEnd[CHOOSE k \in found : \A j \in found : k <= j]]

\* const consecutivePunctPattern = /[!?.]{3,}/g: its lastIndex at the test
consecutivePunctPattern == NewRegExp(calls.lastIndex.punct)

\* const numberPattern = /\d{10,}/g
numberPattern == NewRegExp(calls.lastIndex.number)

\* const repeatPattern = /(.)\1{4,}/g
repeatPattern == NewRegExp(calls.lastIndex.repeat)

hasExcessivePunctuation(text) ==
    IF text = << >> THEN FALSE
    ELSE IF RegExpTest(text, consecutivePunctPattern, PunctMatchEnds(text)).found
         THEN TRUE
         \* punctCount / text.length > 0.1
         ELSE Count(text, IsPunct) * 10 > Len(text)

\* numberPattern.test(text)
HasDigitRun(text) == RegExpTest(text, numberPattern, DigitMatchEnds(text)).found

\* repeatPattern.test(text)
HasCharRepetition(text) == RegExpTest(text, repeatPattern, RepeatMatchEnds(text)).found

hasSuspiciousPatterns(text) ==
    IF text = << >>
    THEN [hasSuspiciousPatterns |-> FALSE, patterns |-> << >>]
    ELSE LET lowerText == toLowerCase(text)
             hits == SelectSeq(SUSPICIOUS_KEYWORDS,
                               LAMBDA keyword : includes(lowerText, keyword))
             patterns ==
                 [k \in 1..Len(hits) |-> <<"Suspicious keyword", hits[k]>>]
                 \o (IF HasDigitRun(text)
                     THEN << <<"Excessive numbers detected">> >> ELSE << >>)
                 \o (IF HasCharRepetition(text)
                     THEN << <<"Suspicious character repetition">> >> ELSE << >>)
         IN  [hasSuspiciousPatterns |-> Len(patterns) > 0, patterns |-> patterns]

\* s.split(sep)[0] for a one-character separator
RECURSIVE BeforeChar(_, _)
BeforeChar(s, sep) ==
    IF s = << >> \/ s[1] = sep THEN << >>
    ELSE << s[1] >> \o BeforeChar(Tail(s), sep)

extractDomain(url) ==
    LET noProtocol ==
            IF startsWith(url, <<"h", "t", "t", "p", "s", ":", "/", "/">>)
            THEN Slice(url, 9, Len(url))
            ELSE IF startsWith(url, <<"h", "t", "t", "p", ":", "/", "/">>)
                 THEN Slice(url, 8, Len(url))
                 ELSE url
        noWww ==
            IF startsWith(noProtocol, <<"w", "w", "w", ".">>)
            THEN Slice(noProtocol, 5, Len(noProtocol))
            ELSE noProtocol
        host == BeforeChar(BeforeChar(BeforeChar(noWww, "/"), "?"), "#")
    IN  toLowerCase(BeforeChar(host, ":"))

\* The blocked domains found, one entry per (domain, blocked domain) match, in
\* the order of the two loops
RECURSIVE BlockedAmong(_, _, _)
BlockedAmong(domains, d, b) ==
    IF d > Len(domains) THEN << >>
    ELSE IF b > Len(config.BLOCKED_DOMAINS) THEN BlockedAmong(domains, d + 1, 1)
         ELSE (IF domains[d] = config.BLOCKED_DOMAINS[b]
                  \/ endsWith(domains[d], << "." >> \o config.BLOCKED_DOMAINS[b])
               THEN << domains[d] >> ELSE << >>)
              \o BlockedAmong(domains, d, b + 1)

\* Whether a domain matches an entry of the whitelist
IsAllowedDomain(domain) ==
    \E a \in 1..Len(config.ALLOWED_DOMAINS) :
        domain = config.ALLOWED_DOMAINS[a]
           \/ endsWith(domain, << "." >> \o config.ALLOWED_DOMAINS[a])

\* A verdict of validateMessage
Verdict(isValid, reason, foundUrls, blockedDomains, validationDetails) ==
    [isValid |-> isValid, reason |-> reason, foundUrls |-> foundUrls,
     blockedDomains |-> blockedDomains, validationDetails |-> validationDetails]

\* Variant: every hit counts, capitals and punctuation included, and two
\* hits block
ValidateWithUrlsAllHits(message, details, urls, domains, patternCheck) ==
    LET hits ==
            (IF hasExcessiveCaps(message)
             THEN << <<"Excessive capitalization detected">> >> ELSE << >>)
            \o (IF hasExcessivePunctuation(message)
                THEN << <<"Excessive punctuation detected">> >> ELSE << >>)
            \o patternCheck.patterns
    IN  IF Len(hits) >= 2
        THEN Verdict(FALSE, <<"Multiple suspicious patterns detected", hits>>,
                     urls, << >>, details \o hits)
        ELSE [isValid |-> TRUE, reason |-> <<"URLs validated", domains>>,
              foundUrls |-> urls, blockedDomains |-> << >>,
              allowedDomains |-> domains, validationDetails |-> details \o hits]

\* validateMessage, the spam checks of a message with URLs and no blocked
\* domain: the hits are recorded, two or more suspicious patterns block
ValidateWithUrls(message, details, urls, domains, patternCheck) ==
    LET allDetails ==
            details
            \o (IF hasExcessiveCaps(message)
                THEN << <<"Excessive capitalization detected">> >> ELSE << >>)
            \o (IF hasExcessivePunctuation(message)
                THEN << <<"Excessive punctuation detected">> >> ELSE << >>)
            \o patternCheck.patterns
    IN  IF patternCheck.hasSuspiciousPatterns /\ Len(patternCheck.patterns) >= 2
        THEN Verdict(FALSE,
                     <<"Multiple suspicious patterns detected", patternCheck.patterns>>,
                     urls, << >>, allDetails)
        ELSE [isValid |-> TRUE, reason |-> <<"URLs validated", domains>>,
              foundUrls |-> urls, blockedDomains |-> << >>,
              allowedDomains |-> domains, validationDetails |-> allDetails]

\* validateMessage, the whitelist check of strict mode
ValidateWhitelist(message, details, urls, domains, patternCheck, notAllowed) ==
    IF STRICT_MODE /\ Len(config.ALLOWED_DOMAINS) > 0 /\ notAllowed # {}
    THEN LET first == CHOOSE k \in notAllowed : \A j \in notAllowed : k <= j
         IN  [isValid |-> FALSE,
              reason |-> <<"Domain not in whitelist", domains[first]>>,
              foundUrls |-> urls, blockedDomains |-> << >>,
              allowedDomains |-> Slice(domains, 1, first - 1),
              validationDetails |->
                  details \o << <<"Domain not in whitelist", domains[first]>> >>]
    ELSE ValidateWithUrls(message, details, urls, domains, patternCheck)

\* validateMessage, the blacklist check
ValidateDomains(message, details, urls, domains, blockedDomains, patternCheck) ==
    IF Len(blockedDomains) > 0
    THEN Verdict(FALSE, <<"Blocked domain(s) detected", blockedDomains>>,
                 urls, blockedDomains,
                 details \o << <<"Blocked domains", blockedDomains>> >>)
    ELSE ValidateWhitelist(message, details, urls, domains, patternCheck,
             { k \in 1..Len(domains) : ~IsAllowedDomain(domains[k]) })

\* validateMessage, the spam checks of a message without URLs: the first hit
\* blocks
ValidateNoUrls(message, details, patternCheck) ==
    IF hasExcessiveCaps(message)
    THEN Verdict(FALSE, <<"Excessive capitalization detected (potential spam)">>,
                 << >>, << >>,
                 details \o << <<"Excessive capitalization detected">> >>)
    ELSE IF hasExcessivePunctuation(message)
    THEN Verdict(FALSE, <<"Excessive punctuation detected (potential spam)">>,
                 << >>, << >>,
                 details \o << <<"Excessive punctuation detected">> >>)
    ELSE IF patternCheck.hasSuspiciousPatterns
    THEN Verdict(FALSE, <<"Suspicious patterns detected", patternCheck.patterns>>,
                 << >>, << >>, details \o patternCheck.patterns)
    ELSE Verdict(TRUE, <<"No URLs found, content validated">>, << >>, << >>, << >>)

\* urls.map(extractDomain)
DomainsOf(urls) == [k \in 1..Len(urls) |-> extractDomain(urls[k])]

\* validateMessage from the URL count on
ValidateUrls(message, details, urls, domains) ==
    IF Len(urls) > MAX_URLS_PER_MESSAGE
    THEN Verdict(FALSE, <<"Too many URLs detected", Len(urls)>>, urls, << >>,
                 details \o << <<"Too many URLs", Len(urls)>> >>)
    ELSE IF Len(urls) = 0
    THEN ValidateNoUrls(message, details, hasSuspiciousPatterns(message))
    ELSE ValidateDomains(message,
             details \o (IF Len(urls) > MAX_SUSPICIOUS_URLS
                         THEN << <<"Suspicious number of URLs", Len(urls)>> >>
                         ELSE << >>),
             urls, domains, BlockedAmong(domains, 1, 1),
             hasSuspiciousPatterns(message))

\* Variant: the URL checks are made whether or not a required keyword is found
ValidateKeywordsUngated(message, keywordCheck, urls) ==
    ValidateUrls(message,
        << <<"Found required keywords", keywordCheck.foundKeywords>> >>,
        urls, DomainsOf(urls))

\* validateMessage from the required-keyword check on
ValidateKeywords(message, keywordCheck, urls) ==
    IF REQUIRE_KEYWORD_VALIDATION /\ ~keywordCheck.hasRequired
    THEN [isValid |-> FALSE,
          reason |-> <<"Message does not contain any required keywords">>,
          foundUrls |-> << >>, blockedDomains |-> << >>,
          validationDetails |-> << <<"Missing required keywords">> >>,
          missingKeywords |-> TRUE]
    ELSE ValidateUrls(message,
             IF REQUIRE_KEYWORD_VALIDATION
             THEN << <<"Found required keywords", keywordCheck.foundKeywords>> >>
             ELSE << >>,
             urls, DomainsOf(urls))

validateMessage(message) ==
    IF message = << >> \/ ~IsString(message)
    THEN Verdict(FALSE, <<"Empty or invalid message">>, << >>, << >>, << >>)
    ELSE IF Len(message) > MAX_MESSAGE_LENGTH
    THEN Verdict(FALSE, <<"Message too long", Len(message)>>, << >>, << >>,
                 << <<"Length check failed", Len(message)>> >>)
    ELSE ValidateKeywords(message, hasRequiredKeywords(message), extractUrls(message))

(***************************************************************************)
(* Spreadsheet cells and rows                                              *)
(***************************************************************************)

\* The checkmark emoji, one character
CheckMark == "CHECKMARK"

ERROR_PREFIX == <<"E", "R", "R", "O", "R", ":">>

BLOCKED_PREFIX == <<"B", "L", "O", "C", "K", "E", "D", ":">>

RATE_LIMITED_PREFIX == <<"R", "A", "T", "E", "_", "L", "I", "M", "I", "T", "E", "D", ":">>

\* What getValues returns for a cell: nothing, a Date, a text or a boolean
EmptyCell == [kind |-> "empty", t |-> 0, text |-> << >>, b |-> FALSE]

DateCell(t) == [kind |-> "date", t |-> t, text |-> << >>, b |-> FALSE]

TextCell(s) == [kind |-> "text", t |-> 0, text |-> s, b |-> FALSE]

BoolCell(b) == [kind |-> "bool", t |-> 0, text |-> << >>, b |-> b]

\* The text `${prefix} ${reason}` the scheduler stores in Last Sent; the
\* reason is kept as one symbol, the first element of the reason record,
\* without the counts and timestamps the code puts into it
OutcomeText(prefix, reason) == TextCell(prefix \o << " ", reason[1] >>)

\* JavaScript truthiness of a cell value
Truthy(cell) ==
    CASE cell.kind = "empty" -> FALSE
      [] cell.kind = "date"  -> TRUE
      [] cell.kind = "text"  -> cell.text # << >>
      [] cell.kind = "bool"  -> cell.b

\* null, the Invalid Date and a valid Date as values of one shape
Null == [isNull |-> TRUE, valid |-> FALSE, t |-> 0]

InvalidDate == [isNull |-> FALSE, valid |-> FALSE, t |-> 0]

DateAt(t) == [isNull |-> FALSE, valid |-> TRUE, t |-> t]

\* new Date(value) for a cell value: a Date cell gives that instant; the
\* texts of the model's sheets (the ERROR:, BLOCKED: and RATE_LIMITED: texts
\* the scheduler writes) are no dates and give the Invalid Date
NewDate(cell) == IF cell.kind = "date" THEN DateAt(cell.t) ELSE InvalidDate

\* start = new Date(row[COL_DATETIME]); start.setSeconds(0, 0)
ParseStart(cell) ==
    IF cell.kind = "date" THEN DateAt(setSecondsZero(cell.t)) ELSE InvalidDate

\* Variant: an ERROR: text is parsed like any other value
ParseLastSentWithErrors(cell) ==
    IF ~Truthy(cell) THEN Null ELSE NewDate(cell)

\* The lastSent variable of sendScheduledMessages
ParseLastSent(cell) ==
    IF ~Truthy(cell) THEN Null
    ELSE IF cell.kind = "text" /\ startsWith(cell.text, ERROR_PREFIX) THEN Null
    ELSE NewDate(cell)

\* The isEnabled flag of sendScheduledMessages
IsEnabled(enabled) ==
    \/ enabled.kind = "bool" /\ enabled.b
    \/ enabled.kind = "text" /\ enabled.text = << CheckMark >>
    \/ /\ enabled.kind = "text"
       /\ \/ trim(toLowerCase(enabled.text)) = <<"y", "e", "s">>
          \/ trim(toLowerCase(enabled.text)) = <<"t", "r", "u", "e">>
          \/ includes(enabled.text, << CheckMark >>)

(***************************************************************************)
(* Texts of the model, with what the text functions give for them          *)
(***************************************************************************)

MsgA == <<"t", "e", "s", "t", " ", "a">>

\* MsgA with other case and white space
MsgA2 == <<" ", "T", "e", "s", "t", " ", " ", "A">>

\* No required keyword: fails validateMessage
MsgB == <<"h", "e", "l", "l", "o">>

\* Valid, and holds a URL
MsgU == <<"t", "e", "s", "t", " ", "x", ".", "i", "o">>

\* Holds two required keywords
MsgZeitslot ==
    <<"t", "e", "s", "t", " ", "z", "e", "i", "t", "s", "l", "o", "t">>

\* Holds a required keyword and a URL of a blocked domain
MsgBitLy ==
    <<"t", "e", "s", "t", " ", "b", "i", "t", ".", "l", "y", "/", "x">>

\* Valid messages that differ in their last character
NumberedMsg(k) ==
    <<"t", "e", "s", "t", " ">> \o << <<"1", "2", "3", "4", "5", "6", "7", "8">>[k] >>

NumberedMessages == { NumberedMsg(k) : k \in 1..8 }

R_ONCE == << >>

R_EVERY_MINUTE == <<"e", "v", "e", "r", "y", " ", "m", "i", "n", "u", "t", "e">>

R_DAILY == <<"D", "a", "i", "l", "y", " ">>

R_DONT_REPEAT == <<"D", "o", "n", "'", "t", " ", "r", "e", "p", "e", "a", "t">>

R_WEEKLY == <<"w", "e", "e", "k", "l", "y">>

R_MONTHLY == <<"M", "o", "n", "t", "h", "l", "y">>

R_YEARLY == <<"y", "e", "a", "r", "l", "y">>

R_EVERY_2_DAYS == <<"e", "v", "e", "r", "y", " ", "2", " ", "d", "a", "y", "s">>

R_EVERY_3_DAYS == <<"e", "v", "e", "r", "y", " ", "3", " ", "d", "a", "y", "s">>

R_EVERY_7_DAYS == <<"e", "v", "e", "r", "y", " ", "7", " ", "d", "a", "y", "s">>

R_EVERY_14_DAYS == <<"e", "v", "e", "r", "y", " ", "1", "4", " ", "d", "a", "y", "s">>

R_WEDNESDAY == <<"W", "e", "d", "n", "e", "s", "d", "a", "y">>

R_THURSDAY == <<"t", "h", "u", "r", "s", "d", "a", "y">>

\* Rules the script does not know
R_HOURLY == <<"h", "o", "u", "r", "l", "y">>

R_EVERY_5_DAYS == <<"E", "v", "e", "r", "y", " ", "5", " ", "d", "a", "y", "s">>

\* The Message cells of the model's sheets (the empty cell included)
Messages ==
    { << >>, MsgA, MsgA2, MsgB, MsgU, MsgZeitslot, MsgBitLy, MsgNumber }
    \cup NumberedMessages

\* The Repeat cells of the model's sheets
Repeats ==
    { R_ONCE, R_DONT_REPEAT, R_EVERY_MINUTE, R_DAILY, R_WEEKLY, R_MONTHLY, R_YEARLY,
      R_EVERY_2_DAYS, R_EVERY_3_DAYS, R_EVERY_7_DAYS, R_EVERY_14_DAYS,
      R_WEDNESDAY, R_THURSDAY, R_HOURLY, R_EVERY_5_DAYS }

\* repeat = repeatRaw.toLowerCase().trim()
ParseRepeat(repeatRaw) == trim(toLowerCase(repeatRaw))

\* message.trim().toLowerCase().replace(/\s+/g, ' ') of a string
NormalizeMessage(message) == collapseWhitespace(toLowerCase(trim(message)))

\* validateMessage, NormalizeMessage and ParseRepeat of every text of the
\* model: the value of the variable texts, which the steps look results up in
TextResults ==
    [validation |-> [m \in Messages |-> validateMessage(m)],
     normalized |-> [m \in Messages |-> NormalizeMessage(m)],
     repeat |-> [r \in Repeats |-> ParseRepeat(r)]]

(***************************************************************************)
(* Schedule evaluation                                                     *)
(***************************************************************************)

\* Variant: the seconds of lastSent are not cleared before the comparison
SentThisMinuteUntruncated(now, lastSent) ==
    /\ ~lastSent.isNull
    /\ lastSent.valid
    /\ lastSent.t = now

\* "Already sent this minute": lastSent is set and falls in the minute of now
SentThisMinute(now, lastSent) ==
    /\ ~lastSent.isNull
    /\ lastSent.valid
    /\ setSecondsZero(lastSent.t) = now

EVERY_MINUTE == <<"e", "v", "e", "r", "y", " ", "m", "i", "n", "u", "t", "e">>

EveryNDays(n) == <<"e", "v", "e", "r", "y", " ">> \o n \o <<" ", "d", "a", "y", "s">>

\* day names in getDay order, 0 = Sunday
WeekdayNames ==
    << <<"s", "u", "n", "d", "a", "y">>,
       <<"m", "o", "n", "d", "a", "y">>,
       <<"t", "u", "e", "s", "d", "a", "y">>,
       <<"w", "e", "d", "n", "e", "s", "d", "a", "y">>,
       <<"t", "h", "u", "r", "s", "d", "a", "y">>,
       <<"f", "r", "i", "d", "a", "y">>,
       <<"s", "a", "t", "u", "r", "d", "a", "y">> >>

\* Variant: every text that names no repeating rule counts as one-time
IsOneTimeUnlessRepeating(repeat) ==
    /\ repeat # EVERY_MINUTE
    /\ repeat \notin { <<"d", "a", "i", "l", "y">>, <<"w", "e", "e", "k", "l", "y">>,
                       <<"m", "o", "n", "t", "h", "l", "y">>,
                       <<"y", "e", "a", "r", "l", "y">> }
    /\ repeat \notin { EveryNDays(<<"2">>), EveryNDays(<<"3">>), EveryNDays(<<"7">>),
                       EveryNDays(<<"1", "4">>) }
    /\ \A d \in 1..7 : repeat # WeekdayNames[d]

IsOneTime(repeat) ==
    \/ repeat = << >>
    \/ repeat = <<"d", "o", "n", "'", "t">>
    \/ repeat = <<"d", "o", "n", "'", "t", " ", "r", "e", "p", "e", "a", "t">>

\* Variant: a one-time message is sent all day
OneTimeRuleDateOnly(exactDateMatch, timeMatch) == exactDateMatch

\* if (isOneTime) shouldSend = exactDateMatch && timeMatch
OneTimeRule(exactDateMatch, timeMatch) == exactDateMatch /\ timeMatch

\* Variant: a weekly message is sent every day
WeeklyRuleTimeOnly(timeMatch, day, startDay) == timeMatch

\* repeat === 'weekly' && timeMatch && day === start.getDay()
WeeklyRule(timeMatch, day, startDay) == timeMatch /\ day = startDay

\* The shouldSend expression: now is minute-truncated, start is the parsed and
\* truncated DateTime cell, lastSent the parsed Last Sent cell.  Every
\* comparison with a field of the Invalid Date is false.
ShouldSend(now, start, repeat, lastSent) ==
    LET exactDateMatch ==
            /\ start.valid
            /\ getFullYear(start.t) = getFullYear(now)
            /\ getMonth(start.t) = getMonth(now)
            /\ getDate(start.t) = getDate(now)
        timeMatch ==
            /\ start.valid
            /\ getHours(now) = getHours(start.t)
            /\ getMinutes(now) = getMinutes(start.t)
        day == getDay(now)
        mDay == getDate(now)
        month == getMonth(now)
        \* Math.floor((now - start) / 86400000); used only when start is valid
        diffDays == (now - start.t) \div SecondsPerDay
        everyDays(n, k) ==
            /\ repeat = EveryNDays(n)
            /\ timeMatch /\ diffDays >= 0 /\ diffDays % k = 0
    IN  \/ IsOneTime(repeat) /\ OneTimeRule(exactDateMatch, timeMatch)
        \/ /\ repeat = EVERY_MINUTE
           /\ \/ lastSent.isNull
              \/ lastSent.valid /\ now - lastSent.t >= SecondsPerMinute
        \/ repeat = <<"d", "a", "i", "l", "y">> /\ timeMatch
        \/ /\ repeat = <<"w", "e", "e", "k", "l", "y">>
           /\ WeeklyRule(timeMatch, day, getDay(start.t))
        \/ /\ repeat = <<"m", "o", "n", "t", "h", "l", "y">>
           /\ timeMatch /\ mDay = getDate(start.t)
        \/ /\ repeat = <<"y", "e", "a", "r", "l", "y">>
           /\ timeMatch /\ mDay = getDate(start.t) /\ month = getMonth(start.t)
        \/ everyDays(<<"2">>, 2)
        \/ everyDays(<<"3">>, 3)
        \/ everyDays(<<"7">>, 7)
        \/ everyDays(<<"1", "4">>, 14)
        \/ \E d \in 0..6 : repeat = WeekdayNames[d + 1] /\ timeMatch /\ day = d

(***************************************************************************)
(* Duplicate detection                                                     *)
(***************************************************************************)

HOURS_24 == 86400

\* Variant: any Last Sent value counts as a recent send
IsSameContentWithLastSent(normalizedMessage, normalizedOther, row, clock) ==
    /\ row.message # << >>
    /\ normalizedMessage = normalizedOther
    /\ Truthy(row.lastSent)

\* The test of one row of the snapshot against the normalized message
IsRecentSameContent(normalizedMessage, normalizedOther, row, clock) ==
    /\ row.message # << >>
    /\ normalizedMessage = normalizedOther
    /\ Truthy(row.lastSent)
    /\ LET lastSentDate == NewDate(row.lastSent)
       IN  /\ lastSentDate.valid
           /\ lastSentDate.t >= clock - HOURS_24
           /\ ~(row.lastSent.kind = "text" /\ startsWith(row.lastSent.text, ERROR_PREFIX))
           /\ ~(row.lastSent.kind = "text" /\ startsWith(row.lastSent.text, BLOCKED_PREFIX))

\* detectDuplicateContent(message, sheetData, currentRowIndex): sheetData[i]
\* is row i of the snapshot (sheetData[0] is the header), clock is new Date(),
\* normalized[m] is NormalizeMessage(m).  throws tells that the call ends
\* with a TypeError, message.trim() or otherMessage.trim() of a number.
detectDuplicateContent(message, sheetData, currentRowIndex, clock, normalized) ==
    IF message = << >> \/ currentRowIndex < 0
    THEN [isDuplicate |-> FALSE, reason |-> <<"">>, row |-> 0, throws |-> FALSE]
    ELSE LET normalizedMessage == normalized[message]
             others == { i \in 1..Len(sheetData) :
                           i # currentRowIndex + 1 /\ sheetData[i].message # << >> }
             \* otherMessage.trim() of a cell that is no string: a TypeError
             noString == { i \in others : ~IsString(sheetData[i].message) }
             hits == { i \in others :
                         IsRecentSameContent(normalizedMessage,
                                             normalized[sheetData[i].message],
                                             sheetData[i], clock) }
             \* the row at which the loop ends, by a return or by the error
             stop == CHOOSE i \in hits \cup noString :
                         \A j \in hits \cup noString : i <= j
         IN  IF ~IsString(message)
             THEN [isDuplicate |-> FALSE, reason |-> <<"">>, row |-> 0,
                   throws |-> TRUE]
             ELSE IF hits \cup noString = {}
             THEN [isDuplicate |-> FALSE, reason |-> <<"">>, row |-> 0,
                   throws |-> FALSE]
             ELSE IF stop \in noString
             THEN [isDuplicate |-> FALSE, reason |-> <<"">>, row |-> stop,
                   throws |-> TRUE]
             ELSE [isDuplicate |-> TRUE,
                   reason |-> <<"Duplicate message detected">>,
                   row |-> stop, throws |-> FALSE]

(***************************************************************************)
(* Rate limiter                                                            *)
(***************************************************************************)

HOUR_TTL == 3600

DAY_TTL == 21600

\* Variant: the key of the hour counter leaves out the hour
hourKeyWithoutHour(t) == <<"rate_hour", getFullYear(t), getMonth(t), getDate(t)>>

hourKey(t) == <<"rate_hour", getFullYear(t), getMonth(t), getDate(t), getHours(t)>>

dayKey(t) == <<"rate_day", getFullYear(t), getMonth(t), getDate(t)>>

\* cache.get(key) answers null: the key was never put, has expired or was
\* evicted
Lost(store, key, clock) ==
    ~ \E e \in store : e.key = key /\ e.expires > clock

\* Variant: a counter that cannot be read counts as a used-up limit
CacheCountClosed(store, key, clock) ==
    LET live == { e \in store : e.key = key /\ e.expires > clock }
    IN  IF live = {} THEN MAX_MESSAGES_PER_DAY ELSE (CHOOSE e \in live : TRUE).value

\* parseInt(cache.get(key) || '0'): an absent or expired entry counts as 0
CacheCount(store, key, clock) ==
    LET live == { e \in store : e.key = key /\ e.expires > clock }
    IN  IF live = {} THEN 0 ELSE (CHOOSE e \in live : TRUE).value

\* cache.put(key, value, ttl)
CachePut(store, key, value, ttl, clock) ==
    { e \in store : e.key # key }
    \cup { [key |-> key, value |-> value, expires |-> clock + ttl] }

\* Variant: the limits are compared with > in place of >=
checkRateLimitOffByOne(store, clock) ==
    LET hourCount == CacheCount(store, hourKey(clock), clock)
        dayCount == CacheCount(store, dayKey(clock), clock)
    IN  IF hourCount > MAX_MESSAGES_PER_HOUR
        THEN [isAllowed |-> FALSE, reason |-> <<"Rate limit exceeded: this hour">>,
              hourCount |-> hourCount, dayCount |-> dayCount]
        ELSE IF dayCount > MAX_MESSAGES_PER_DAY
        THEN [isAllowed |-> FALSE, reason |-> <<"Rate limit exceeded: today">>,
              hourCount |-> hourCount, dayCount |-> dayCount]
        ELSE [isAllowed |-> TRUE, reason |-> <<"Rate limit OK">>,
              hourCount |-> hourCount, dayCount |-> dayCount]

\* Variant: only the daily limit is tested
checkRateLimitDayOnly(store, clock) ==
    LET hourCount == CacheCount(store, hourKey(clock), clock)
        dayCount == CacheCount(store, dayKey(clock), clock)
    IN  IF dayCount >= MAX_MESSAGES_PER_DAY
        THEN [isAllowed |-> FALSE, reason |-> <<"Rate limit exceeded: today">>,
              hourCount |-> hourCount, dayCount |-> dayCount]
        ELSE [isAllowed |-> TRUE, reason |-> <<"Rate limit OK">>,
              hourCount |-> hourCount, dayCount |-> dayCount]

checkRateLimit(store, clock) ==
    LET hourCount == CacheCount(store, hourKey(clock), clock)
        dayCount == CacheCount(store, dayKey(clock), clock)
    IN  IF hourCount >= MAX_MESSAGES_PER_HOUR
        THEN [isAllowed |-> FALSE, reason |-> <<"Rate limit exceeded: this hour">>,
              hourCount |-> hourCount, dayCount |-> dayCount]
        ELSE IF dayCount >= MAX_MESSAGES_PER_DAY
        THEN [isAllowed |-> FALSE, reason |-> <<"Rate limit exceeded: today">>,
              hourCount |-> hourCount, dayCount |-> dayCount]
        ELSE [isAllowed |-> TRUE, reason |-> <<"Rate limit OK">>,
              hourCount |-> hourCount, dayCount |-> dayCount]

\* Variant: the check counts itself as a message of the hour
StoreAfterCheckCounting(store, clock) ==
    CachePut(store, hourKey(clock), CacheCount(store, hourKey(clock), clock) + 1,
             HOUR_TTL, clock)

\* The store after checkRateLimit: its two cache.get calls only read
StoreAfterCheck(store, clock) == store

(***************************************************************************)
(* The decision for one row                                                *)
(***************************************************************************)

\* Variant: content validation comes before the duplicate check
GatesValidationFirst(duplicateCheck, validationResult, rateLimitCheck) ==
    IF ~validationResult.isValid
    THEN [outcome |-> "invalid", reason |-> validationResult.reason,
          validation |-> validationResult, dup |-> 0]
    ELSE IF duplicateCheck.throws
    THEN [outcome |-> "exception", reason |-> <<"">>,
          validation |-> [isValid |-> TRUE, foundUrls |-> << >>],
          dup |-> duplicateCheck.row]
    ELSE IF duplicateCheck.isDuplicate
    THEN [outcome |-> "duplicate", reason |-> duplicateCheck.reason,
          validation |-> [isValid |-> TRUE, foundUrls |-> << >>],
          dup |-> duplicateCheck.row]
    ELSE IF ~rateLimitCheck.isAllowed
    THEN [outcome |-> "rate_limited", reason |-> rateLimitCheck.reason,
          validation |-> validationResult, dup |-> 0]
    ELSE [outcome |-> "send", reason |-> <<"">>, validation |-> validationResult,
          dup |-> 0]

\* The checks a due message passes before it is sent, in the order of the
\* code: duplicate content, content validation, rate limit.  An exception in
\* detectDuplicateContent leaves the loop.
Gates(duplicateCheck, validationResult, rateLimitCheck) ==
    IF duplicateCheck.throws
    THEN [outcome |-> "exception", reason |-> <<"">>,
          validation |-> [isValid |-> TRUE, foundUrls |-> << >>],
          dup |-> duplicateCheck.row]
    ELSE IF duplicateCheck.isDuplicate
    THEN [outcome |-> "duplicate", reason |-> duplicateCheck.reason,
          validation |-> [isValid |-> TRUE, foundUrls |-> << >>],
          dup |-> duplicateCheck.row]
    ELSE IF ~validationResult.isValid
    THEN [outcome |-> "invalid", reason |-> validationResult.reason,
          validation |-> validationResult, dup |-> 0]
    ELSE IF ~rateLimitCheck.isAllowed
    THEN [outcome |-> "rate_limited", reason |-> rateLimitCheck.reason,
          validation |-> validationResult, dup |-> 0]
    ELSE [outcome |-> "send", reason |-> <<"">>, validation |-> validationResult,
          dup |-> 0]

\* Variant: entries without a message and disabled entries are evaluated
\* like any other
EvaluateRowWithoutSkip(sheetData, i, now, clock, store, results) ==
    LET row == sheetData[i]
        start == ParseStart(row.datetime)
        msg == row.message
        lastSent == ParseLastSent(row.lastSent)
        none == [isValid |-> TRUE, foundUrls |-> << >>]
    IN  IF ~Truthy(row.datetime)
        THEN [outcome |-> "no_datetime", reason |-> <<"">>, validation |-> none,
              dup |-> 0]
        ELSE IF SentThisMinute(now, lastSent)
        THEN [outcome |-> "same_minute", reason |-> <<"">>, validation |-> none,
              dup |-> 0]
        ELSE IF ~ShouldSend(now, start, results.repeat[row.repeat], lastSent)
        THEN [outcome |-> "not_due", reason |-> <<"">>, validation |-> none,
              dup |-> 0]
        ELSE Gates(detectDuplicateContent(msg, sheetData, i, clock,
                                          results.normalized),
                   results.validation[msg],
                   checkRateLimit(store, clock))

\* What one pass of the loop body decides for row i of the snapshot, up to
\* the point where the message is handed to the Telegram API
EvaluateRow(sheetData, i, now, clock, store, results) ==
    LET row == sheetData[i]
        start == ParseStart(row.datetime)
        msg == row.message
        lastSent == ParseLastSent(row.lastSent)
        none == [isValid |-> TRUE, foundUrls |-> << >>]
    IN  IF ~Truthy(row.datetime)
        THEN [outcome |-> "no_datetime", reason |-> <<"">>, validation |-> none,
              dup |-> 0]
        ELSE IF msg = << >> \/ ~IsEnabled(row.enabled)
        THEN [outcome |-> "skipped", reason |-> <<"">>, validation |-> none,
              dup |-> 0]
        ELSE IF SentThisMinute(now, lastSent)
        THEN [outcome |-> "same_minute", reason |-> <<"">>, validation |-> none,
              dup |-> 0]
        ELSE IF ~ShouldSend(now, start, results.repeat[row.repeat], lastSent)
        THEN [outcome |-> "not_due", reason |-> <<"">>, validation |-> none,
              dup |-> 0]
        ELSE Gates(detectDuplicateContent(msg, sheetData, i, clock,
                                          results.normalized),
                   results.validation[msg],
                   checkRateLimit(store, clock))

(***************************************************************************)
(* Bounds and the sheets the model starts from                             *)
(***************************************************************************)

\* Rows of data in a sheet
MaxRows == 2

\* Trigger invocations started in one behaviour
MaxStarts == 2

\* Clock steps in one behaviour
MaxTicks == 3

\* CacheService calls that throw in one behaviour
MaxFaults == 1

\* Invocations begun in one behaviour of SpecRate
MaxRateStarts == 3

\* Hours that pass in one behaviour of SpecRate
MaxRateHours == 7

\* The clock advances in steps of half a minute
TickSteps == { 30 }

\* The two time-driven triggers that may run side by side
Procs == { "t1", "t2" }

\* 2024-08-21 19:00:00, a Wednesday
T0 == 19956 * SecondsPerDay + 19 * SecondsPerHour

Row(datetime, message, repeat, enabled, lastSent) ==
    [datetime |-> datetime, message |-> message, repeat |-> repeat,
     enabled |-> enabled, lastSent |-> lastSent]

\* Last Sent values a sheet can hold: nothing, send timestamps (this minute,
\* a minute ago, two hours ago, a minute less than a day ago, thirty hours
\* ago) and the three texts the scheduler writes
SentCells ==
    { DateCell(T0), DateCell(T0 - 60), DateCell(T0 - 7200),
      DateCell(T0 - 86400 + 60), DateCell(T0 - 108000) }

OutcomeCells ==
    { OutcomeText(ERROR_PREFIX, <<"Bad Request">>),
      OutcomeText(BLOCKED_PREFIX, <<"Duplicate message detected">>),
      OutcomeText(RATE_LIMITED_PREFIX, <<"Rate limit exceeded: this hour">>) }

LastSentCells == { EmptyCell } \cup SentCells \cup OutcomeCells

\* Counter stores: empty, one send short of both limits, hourly limit reached
CacheEntry(key, value, ttl, at) == [key |-> key, value |-> value, expires |-> at + ttl]

CacheWith(h, d) ==
    { CacheEntry(hourKey(T0), h, HOUR_TTL, T0 - 60),
      CacheEntry(dayKey(T0), d, DAY_TTL, T0 - 60) }

Caches == { {}, CacheWith(2, 4), CacheWith(3, 3) }

\* All sheets of the given lengths over a set of rows
SheetsOver(rows, lengths) == UNION { [1..n -> rows] : n \in lengths }

\* One entry: every combination of schedule, message and Last Sent under the
\* rules "once", "every minute" and "daily"
CoreRows ==
    { Row(dt, m, r, BoolCell(TRUE), ls) :
        dt \in { DateCell(T0 + 15), DateCell(T0 - 86400 + 15), DateCell(T0 + 60) },
        m \in { MsgA, MsgB, MsgU },
        r \in { R_ONCE, R_EVERY_MINUTE, R_DAILY },
        ls \in LastSentCells }

\* One entry under each of the other rules, scheduled today or yesterday; a
\* Last Sent may have been typed in and hold seconds
RuleRows ==
    { Row(dt, MsgA, r, BoolCell(TRUE), ls) :
        dt \in { DateCell(T0 + 15), DateCell(T0 - 86400 + 15) },
        r \in Repeats \ { R_ONCE, R_EVERY_MINUTE, R_DAILY },
        ls \in { EmptyCell, DateCell(T0 + 20), DateCell(T0 - 86400 + 60),
                 OutcomeText(BLOCKED_PREFIX, <<"Duplicate message detected">>) } }

\* Entries that are never evaluated: disabled, no message, no DateTime; and
\* one whose Enabled cell is a text
InertRows ==
    { Row(DateCell(T0), MsgA, R_DAILY, BoolCell(FALSE), EmptyCell),
      Row(DateCell(T0), << >>, R_DAILY, BoolCell(TRUE), EmptyCell),
      Row(EmptyCell, MsgA, R_DAILY, BoolCell(TRUE), EmptyCell),
      Row(DateCell(T0), MsgA, R_DAILY, TextCell(<<" ", "Y", "e", "s">>), EmptyCell) }

\* Sheets with several rows.  One row is of PairRows and due now: a valid
\* content never sent or sent two hours ago, or an invalid content.  The other rows are of OtherRows, sent daily at 17:00: the valid
\* content in another spelling with every kind of Last Sent but the last two
\* minutes', and the invalid content sent two hours ago.
PairRows ==
    { Row(DateCell(T0 + 15), MsgA, R_DAILY, BoolCell(TRUE), ls) :
        ls \in { EmptyCell, DateCell(T0 - 7200) } }
    \cup { Row(DateCell(T0 + 15), MsgB, R_DAILY, BoolCell(TRUE), EmptyCell) }

OtherRows ==
    { Row(DateCell(T0 - 7200 + 15), MsgA2, R_DAILY, BoolCell(TRUE), ls) :
        ls \in LastSentCells \ { EmptyCell, DateCell(T0), DateCell(T0 - 60) } }
    \cup { Row(DateCell(T0 - 7200 + 15), MsgB, R_DAILY, BoolCell(TRUE),
                DateCell(T0 - 7200)) }

PairSheets ==
    { s \in SheetsOver(PairRows \cup OtherRows, 2..MaxRows) :
        \E k \in 1..Len(s) :
            /\ s[k] \in PairRows
            /\ \A j \in 1..Len(s) : j # k => s[j] \in OtherRows }

\* DateTime cells at 19:00 local time (19:01 for one of them): today, whole
\* days before today, days ahead, a month and a year before, and in the
\* winter before (when 19:00 local time is 20:00 UTC)
RuleStarts ==
    { DateCell(T0 + 15),
      DateCell(T0 - 1 * SecondsPerDay + 15),
      DateCell(T0 - 2 * SecondsPerDay),
      DateCell(T0 - 2 * SecondsPerDay + SecondsPerMinute),
      DateCell(T0 - 3 * SecondsPerDay),
      DateCell(T0 - 6 * SecondsPerDay),
      DateCell(T0 - 7 * SecondsPerDay + 15),
      DateCell(T0 - 14 * SecondsPerDay),
      DateCell(T0 - 28 * SecondsPerDay),
      DateCell(T0 - 31 * SecondsPerDay),
      DateCell(T0 - 366 * SecondsPerDay),
      DateCell(T0 + 2 * SecondsPerDay),
      DateCell(T0 + 7 * SecondsPerDay),
      DateCell(T0 - 147 * SecondsPerDay + SecondsPerHour),
      DateCell(T0 - 154 * SecondsPerDay + SecondsPerHour),
      DateCell(T0 - 182 * SecondsPerDay + SecondsPerHour) }

\* The rules that compare now with the DateTime cell
DatedRules ==
    { R_DAILY, R_WEEKLY, R_MONTHLY, R_YEARLY, R_EVERY_2_DAYS, R_EVERY_3_DAYS,
      R_EVERY_7_DAYS, R_EVERY_14_DAYS, R_WEDNESDAY, R_THURSDAY }

\* One entry under a rule that looks at the calendar, never sent before
DatedRows ==
    { Row(dt, MsgA, r, BoolCell(TRUE), EmptyCell) : dt \in RuleStarts, r \in DatedRules }

\* One entry under a rule the script does not know, with every kind of Last
\* Sent: scheduled today, five days ago, or an hour ago
UnknownRows ==
    { Row(dt, MsgA, r, BoolCell(TRUE), ls) :
        dt \in { DateCell(T0 + 15), DateCell(T0 - 5 * SecondsPerDay),
                 DateCell(T0 - SecondsPerHour) },
        r \in { R_HOURLY, R_EVERY_5_DAYS },
        ls \in LastSentCells }

\* One entry whose DateTime cell holds a text that is no date, under every
\* rule, never sent or sent two hours ago
BadStartRows ==
    { Row(TextCell(<<"s", "o", "o", "n">>), MsgA, r, BoolCell(TRUE), ls) :
        r \in Repeats,
        ls \in { EmptyCell, DateCell(T0 - 7200) } }

\* Sheets and counter stores on the edge of a time window.  An entry due now
\* below an entry of the same content that was sent 24 hours ago, to the
\* minute or twenty seconds later; and an entry due now while the day counter,
\* at its limit, expires twenty seconds into the minute.
EdgeBegin ==
    { << << Row(DateCell(T0 - 7200 + 15), MsgA2, R_DAILY, BoolCell(TRUE), DateCell(ls)),
            Row(DateCell(T0 + 15), MsgA, R_DAILY, BoolCell(TRUE), EmptyCell) >>,
         {} >> : ls \in { T0 - SecondsPerDay, T0 - SecondsPerDay + 20 } }
    \cup { << << Row(DateCell(T0 + 15), MsgA, R_DAILY, BoolCell(TRUE), EmptyCell) >>,
              { CacheEntry(dayKey(T0), MAX_MESSAGES_PER_DAY, DAY_TTL,
                           T0 + 20 - DAY_TTL) } >> }

\* A day of sends: 09:00 local time, when the runs of SpecRate begin
RateT0 == T0 - 10 * SecondsPerHour

\* A sheet of daily entries with contents of their own: four scheduled at
\* the instant first, three at second and one at third
DaySheet(first, second, third) ==
    [k \in 1..8 |->
        Row(DateCell(CASE k <= 4 -> first [] k <= 7 -> second [] OTHER -> third),
            NumberedMsg(k), R_DAILY, BoolCell(TRUE), EmptyCell)]

\* Entries scheduled at 09:00, 10:00 and 16:00
RateSheet ==
    DaySheet(RateT0, RateT0 + SecondsPerHour, RateT0 + 7 * SecondsPerHour)

\* An evening of sends: 22:30 local time
EveningT0 == T0 + 3 * SecondsPerHour + 30 * SecondsPerMinute

\* Entries scheduled at 22:30, 23:00 and midnight
EveningSheet ==
    DaySheet(EveningT0, EveningT0 + 30 * SecondsPerMinute,
             EveningT0 + 90 * SecondsPerMinute)

\* Two daily entries with contents of their own, both due at 19:00
ContendSheet ==
    [k \in 1..2 |->
        Row(DateCell(T0 + 15), NumberedMsg(k), R_DAILY, BoolCell(TRUE), EmptyCell)]

\* Entries of the sheets two overlapping invocations work on
OverlapRows ==
    { Row(DateCell(T0 + 15), MsgA, R_DAILY, BoolCell(TRUE), EmptyCell),
      Row(DateCell(T0 + 15), MsgU, R_ONCE, BoolCell(TRUE), EmptyCell),
      Row(DateCell(T0 + 60), MsgU, R_EVERY_MINUTE, BoolCell(TRUE), DateCell(T0 - 60)) }

(***************************************************************************)
(* State                                                                   *)
(***************************************************************************)

VARIABLES
    texts,    \* TextResults: what the text functions give for the model's texts
    sheet,    \* the rows of the spreadsheet (the header row left out)
    cache,    \* CacheService script cache: entries [key, value, expires]
    clock,    \* the current instant, in seconds
    inv,      \* per trigger: position in sendScheduledMessages and its locals
    starts,   \* invocations started so far
    faults,   \* CacheService calls that have thrown so far
    last,     \* the most recent decision or send result of a loop pass
    sent,     \* successful Telegram sends: <<row, now, n, hour>> for the n-th
              \* delivery of a row by invocations whose now is that minute,
              \* made in the clock hour that begins at hour
    incrs,    \* the completed calls of incrementRateLimit: the clock hour
              \* each one built its keys in
    alerts,   \* per trigger: the calls of notifyAdmin its running invocation
              \* has made, in order
    reset     \* the latest run of resetRateLimit: how many runs there were,
              \* the instant of the latest and the number of completed calls
              \* of incrementRateLimit at that instant

\* resetRateLimit has not been run
NoReset == [runs |-> 0, t |-> 0, incrs |-> 0]

\* debugTest has not been run
NoDebug == [runs |-> 0, reports |-> << >>, chats |-> << >>]

\* The verdict slot before any call
NoVerdict == Verdict(FALSE, <<"">>, << >>, << >>, << >>)

\* No call of validateMessage has been made on its own: no message, no
\* verdict, and pattern objects that have not been used
NoCalls ==
    [n |-> 0, again |-> 0, message |-> << >>,
     first |-> NoVerdict, latest |-> NoVerdict,
     lastIndex |-> [punct |-> 0, number |-> 0, repeat |-> 0]]

vars == <<texts, sheet, cache, clock, inv, starts, faults, last, sent, incrs, alerts, calls, config, debug, reset>>

Idle ==
    [pc |-> "idle", data |-> << >>, now |-> 0, i |-> 0, urls |-> FALSE,
     keyTime |-> 0, hourCount |-> 0, dayCount |-> 0]

NoEvent ==
    [kind |-> "none", proc |-> "", row |-> 0, now |-> 0, clock |-> 0,
     cell |-> EmptyCell, outcome |-> "", reason |-> <<"">>, dup |-> 0]

TypeOK ==
    /\ Len(sheet) \in 1..MaxRows \/ Len(sheet) = Len(RateSheet)
    /\ clock \in Int
    /\ starts \in 0..MaxStarts \/ starts \in 0..MaxRateStarts
    /\ faults \in 0..MaxFaults
    /\ \A p \in Procs : inv[p].pc \in { "idle", "loop", "send", "incr", "put", "poll" }

\* begin is a set of <<sheet, cache>>: what the run begins with, at the
\* instant t and with one of the given configurations
InitUnder(configs, begin, t) ==
    /\ calls = NoCalls
    /\ config \in configs
    /\ debug = NoDebug
    /\ reset = NoReset
    /\ texts = TextResults
    /\ \E b \in begin : sheet = b[1] /\ cache = b[2]
    /\ clock = t
    /\ inv = [p \in Procs |-> Idle]
    /\ starts = 0
    /\ faults = 0
    /\ last = NoEvent
    /\ sent = {}
    /\ incrs = << >>
    /\ alerts = [p \in Procs |-> << >>]

\* The same with the lists as shipped
InitAt(begin, t) == InitUnder({ ShippedConfig }, begin, t)

InitWith(begin) == InitAt(begin, T0)

(***************************************************************************)
(* sendScheduledMessages, step by step                                     *)
(***************************************************************************)

\* The script starts: the sheet is read once, now is the clock without seconds
BeginUpTo(p, limit) ==
    /\ inv[p].pc = "idle"
    /\ starts < limit
    /\ inv' = [inv EXCEPT ![p] = [Idle EXCEPT !.pc = "loop", !.data = sheet,
                                              !.now = setSecondsZero(clock),
                                              !.i = 1]]
    /\ starts' = starts + 1
    /\ last' = NoEvent
    /\ UNCHANGED <<texts, sheet, cache, clock, faults, sent, incrs, alerts, calls, config, debug, reset>>

Begin(p) == BeginUpTo(p, MaxStarts)

\* A trigger fires, whatever the other trigger is doing
Start(p) == Begin(p)

\* A trigger fires after the previous invocation has finished
StartAlone(p) ==
    /\ \A q \in Procs : inv[q].pc = "idle"
    /\ Begin(p)

\* notifyAdmin(rowNumber, message, blockReason, ...): the alert handed to the
\* admin chat, added to the alerts of the invocation.  It names the row,
\* carries the text stored in Last Sent as the reason, and the whole message.
notifyAdmin(log, rowNumber, message, blockReason) ==
    Append(log, [row |-> rowNumber, message |-> message, reason |-> blockReason])

\* Variant: the error is stored as it came, without the prefix
ErrorCellUnprefixed(reason) == TextCell(<< reason[1] >>)

\* errorMsg = `ERROR: ${sanitizedError}`
ErrorCell(reason) == OutcomeText(ERROR_PREFIX, reason)

\* sheet.getRange(i + 1, COL_LAST_SENT + 1).setValue(value)
SetLastSent(s, i, value) == [s EXCEPT ![i].lastSent = value]

\* Variant: the rows are read from the sheet again for every entry
SheetDataLive(p) == sheet

\* const data = sheet.getDataRange().getValues(): the rows as they were read
\* when the invocation began
SheetData(p) == inv[p].data

\* One pass of the loop body for row i, up to the call of the Telegram API
ProcessRow(p) ==
    /\ inv[p].pc = "loop"
    /\ inv[p].i <= Len(inv[p].data)
    /\ LET i == inv[p].i
           e == EvaluateRow(SheetData(p), i, inv[p].now, clock, cache, texts)
       IN  /\ e.outcome # "exception"
           /\ last' = [kind |-> "decision", proc |-> p, row |-> i,
                       now |-> inv[p].now, clock |-> clock,
                       cell |-> inv[p].data[i].lastSent,
                       outcome |-> e.outcome, reason |-> e.reason,
                       dup |-> e.dup]
           /\ sheet' =
                CASE e.outcome = "duplicate" ->
                       SetLastSent(sheet, i, OutcomeText(BLOCKED_PREFIX, e.reason))
                  [] e.outcome = "invalid" ->
                       SetLastSent(sheet, i, OutcomeText(BLOCKED_PREFIX, e.reason))
                  [] e.outcome = "rate_limited" ->
                       SetLastSent(sheet, i, OutcomeText(RATE_LIMITED_PREFIX, e.reason))
                  [] OTHER -> sheet
           /\ cache' = IF e.outcome \in { "rate_limited", "send" }
                       THEN StoreAfterCheck(cache, clock)
                       ELSE cache
           /\ alerts' =
                IF e.outcome \in { "duplicate", "invalid", "rate_limited" }
                THEN [alerts EXCEPT ![p] =
                        notifyAdmin(@, i, inv[p].data[i].message, sheet'[i].lastSent.text)]
                ELSE alerts
           /\ inv' = [inv EXCEPT ![p] =
                IF e.outcome = "send"
                THEN [@ EXCEPT !.pc = "send",
                               !.urls = Len(e.validation.foundUrls) > 0]
                ELSE [@ EXCEPT !.i = i + 1]]
    /\ UNCHANGED <<texts, clock, starts, faults, sent, incrs, calls, config, debug, reset>>

\* UrlFetchApp.fetch of sendMessage answers: ok, or not ok / an exception
Send(p) ==
    /\ inv[p].pc = "send"
    /\ LET i == inv[p].i
           now == inv[p].now
           n == Cardinality({ s \in sent : s[1] = i /\ s[2] = now }) + 1
       IN  \E ok \in BOOLEAN :
             /\ last' = [kind |-> "send", proc |-> p, row |-> i, now |-> now,
                         clock |-> clock, cell |-> inv[p].data[i].lastSent,
                         outcome |-> IF ok THEN "sent" ELSE "error",
                         reason |-> <<"">>, dup |-> 0]
             /\ IF ok
                THEN /\ sheet' = SetLastSent(sheet, i, DateCell(now))
                     /\ sent' = sent \cup { <<i, now, n, HourOf(clock)>> }
                     /\ inv' = [inv EXCEPT ![p].pc = "incr"]
                     /\ alerts' = alerts
                ELSE /\ sheet' = SetLastSent(sheet, i, ErrorCell(<<"Bad Request">>))
                     /\ sent' = sent
                     /\ inv' = [inv EXCEPT ![p].pc = "loop", ![p].i = i + 1]
                     /\ alerts' = [alerts EXCEPT ![p] =
                                     notifyAdmin(@, i, inv[p].data[i].message,
                                                 sheet'[i].lastSent.text)]
    /\ UNCHANGED <<texts, cache, clock, starts, faults, incrs, calls, config, debug, reset>>

\* incrementRateLimit, first half: the keys are built and the counts read
IncrGet(p) ==
    /\ inv[p].pc = "incr"
    /\ inv' = [inv EXCEPT ![p].pc = "put",
                          ![p].keyTime = clock,
                          ![p].hourCount = CacheCount(cache, hourKey(clock), clock),
                          ![p].dayCount = CacheCount(cache, dayKey(clock), clock)]
    /\ last' = NoEvent
    /\ UNCHANGED <<texts, sheet, cache, clock, starts, faults, sent, incrs, alerts, calls, config, debug, reset>>

\* incrementRateLimit, second half: both counts are stored incremented
IncrPut(p) ==
    /\ inv[p].pc = "put"
    /\ cache' = CachePut(
                  CachePut(cache, hourKey(inv[p].keyTime), inv[p].hourCount + 1,
                           HOUR_TTL, clock),
                  dayKey(inv[p].keyTime), inv[p].dayCount + 1, DAY_TTL, clock)
    /\ incrs' = Append(incrs, HourOf(inv[p].keyTime))
    /\ inv' = [inv EXCEPT ![p].pc = "poll"]
    /\ last' = NoEvent
    /\ UNCHANGED <<texts, sheet, clock, starts, faults, sent, alerts, calls, config, debug, reset>>

\* A CacheService call of incrementRateLimit throws: before anything is
\* stored, or between the two puts.  The exception is caught by the catch of
\* the send, which writes the error over the send timestamp.
IncrFail(p) ==
    /\ inv[p].pc \in { "incr", "put" }
    /\ faults < MaxFaults
    /\ faults' = faults + 1
    /\ \E hourStored \in { FALSE, inv[p].pc = "put" } :
         cache' = IF hourStored
                  THEN CachePut(cache, hourKey(inv[p].keyTime),
                                inv[p].hourCount + 1, HOUR_TTL, clock)
                  ELSE cache
    /\ sheet' = SetLastSent(sheet, inv[p].i, ErrorCell(<<"Service error: Cache">>))
    /\ alerts' = [alerts EXCEPT ![p] =
                    notifyAdmin(@, inv[p].i, inv[p].data[inv[p].i].message,
                                sheet'[inv[p].i].lastSent.text)]
    /\ inv' = [inv EXCEPT ![p].pc = "loop", ![p].i = inv[p].i + 1,
                          ![p].urls = FALSE]
    /\ last' = [kind |-> "send", proc |-> p, row |-> inv[p].i, now |-> inv[p].now,
                clock |-> clock, cell |-> inv[p].data[inv[p].i].lastSent,
                outcome |-> "error_after_send", reason |-> <<"">>, dup |-> 0]
    /\ UNCHANGED <<texts, clock, starts, sent, incrs, calls, config, debug, reset>>

\* Variant: the error is caught in the loop, which goes on with the next row
OuterCatchInLoop(run) == [run EXCEPT !.i = @ + 1]

\* catch (err) of sendScheduledMessages: the error is logged and the function
\* returns
OuterCatch(run) == Idle

\* detectDuplicateContent throws a TypeError on a Message cell that is no
\* string: the exception leaves the loop and is caught at the end of the
\* script
DuplicateCheckThrows(p) ==
    /\ inv[p].pc = "loop"
    /\ inv[p].i <= Len(inv[p].data)
    /\ EvaluateRow(SheetData(p), inv[p].i, inv[p].now, clock, cache, texts).outcome
          = "exception"
    /\ inv' = [inv EXCEPT ![p] = OuterCatch(@)]
    /\ last' = [NoEvent EXCEPT !.kind = "abort", !.proc = p, !.row = inv[p].i]
    /\ alerts' = [alerts EXCEPT ![p] = << >>]
    /\ UNCHANGED <<texts, sheet, cache, clock, starts, faults, sent, incrs, calls, config, debug, reset>>

\* The CacheService call of checkRateLimit throws: the exception leaves the
\* loop and is caught at the end of the script
RateCheckFail(p) ==
    /\ inv[p].pc = "loop"
    /\ inv[p].i <= Len(inv[p].data)
    /\ EvaluateRow(SheetData(p), inv[p].i, inv[p].now, clock, cache, texts).outcome
          \in { "rate_limited", "send" }
    /\ faults < MaxFaults
    /\ faults' = faults + 1
    /\ inv' = [inv EXCEPT ![p] = OuterCatch(@)]
    /\ last' = [NoEvent EXCEPT !.kind = "abort", !.proc = p, !.row = inv[p].i]
    /\ alerts' = [alerts EXCEPT ![p] = << >>]
    /\ UNCHANGED <<texts, sheet, cache, clock, starts, sent, incrs, calls, config, debug, reset>>

\* What becomes of the helper poll after a send: sendHelperPoll is called
\* when the validation found a URL, and answers whether the poll went out
PollOutcome(hasUrls, pollSent) ==
    IF ~hasUrls THEN "no_poll"
    ELSE IF pollSent THEN "poll_sent" ELSE "poll_failed"

\* The helper poll is sent when the message held a URL; its result is only
\* logged.  The loop goes on with the next row.
Poll(p) ==
    /\ inv[p].pc = "poll"
    /\ inv' = [inv EXCEPT ![p].pc = "loop", ![p].i = inv[p].i + 1,
                          ![p].urls = FALSE]
    /\ \E pollSent \in BOOLEAN :
         last' = [NoEvent EXCEPT !.kind = "poll", !.proc = p, !.row = inv[p].i,
                                 !.now = inv[p].now,
                                 !.outcome = PollOutcome(inv[p].urls, pollSent)]
    /\ UNCHANGED <<texts, sheet, cache, clock, starts, faults, sent, incrs, alerts, calls, config, debug, reset>>

\* The loop is over and the script ends
Finish(p) ==
    /\ inv[p].pc = "loop"
    /\ inv[p].i > Len(inv[p].data)
    /\ inv' = [inv EXCEPT ![p] = Idle]
    /\ last' = NoEvent
    /\ alerts' = [alerts EXCEPT ![p] = << >>]
    /\ UNCHANGED <<texts, sheet, cache, clock, starts, faults, sent, incrs, calls, config, debug, reset>>

\* Time passes
Tick ==
    /\ \E d \in TickSteps :
         /\ clock + d <= T0 + MaxTicks * d
         /\ clock' = clock + d
    /\ last' = NoEvent
    /\ UNCHANGED <<texts, sheet, cache, inv, starts, faults, sent, incrs, alerts, calls, config, debug, reset>>

Step(p) ==
    \/ ProcessRow(p)
    \/ Send(p)
    \/ IncrGet(p)
    \/ IncrPut(p)
    \/ IncrFail(p)
    \/ RateCheckFail(p)
    \/ Poll(p)
    \/ Finish(p)

\* Triggers may overlap
Next == Tick \/ \E p \in Procs : Start(p) \/ Step(p)

\* Each invocation starts after the previous one has finished
NextSeq == Tick \/ \E p \in Procs : StartAlone(p) \/ Step(p)

\* One entry under the three main rules, with any counter store when its
\* message is valid; one entry under another rule or an inert one; or several
\* entries
InitSeq ==
    InitWith((SheetsOver({ r \in CoreRows : r.message # MsgB }, { 1 }) \X Caches)
             \cup (SheetsOver({ r \in CoreRows : r.message = MsgB }, { 1 }) \X { {} })
             \cup (SheetsOver(RuleRows \cup InertRows, { 1 }) \X { {} })
             \cup (PairSheets \X { {} }))

\* Invocations one after the other
SpecSeq == InitSeq /\ [][NextSeq]_vars

InitOverlap ==
    InitWith(SheetsOver(OverlapRows, { 1 }) \X { {}, CacheWith(2, 4) })

\* Invocations that may overlap
Spec == InitOverlap /\ [][Next]_vars

RateProcs == { "t1" }

\* A trigger fires after the previous invocation has finished
StartRate(p) ==
    /\ \A q \in Procs : inv[q].pc = "idle"
    /\ BeginUpTo(p, MaxRateStarts)

\* The clock of SpecRate moves by an hour or by the day counter's lifetime
RateSteps == { SecondsPerHour, DAY_TTL }

\* The runs of SpecRate begin at the time the first entry is scheduled
RateBegin == sheet[1].datetime.t

\* Time passes between two invocations, by a step of RateSteps or up to the
\* next full hour; or the clock hour in which an invocation began ends
\* between a send and the call of incrementRateLimit that follows it
TickHour ==
    \E d \in RateSteps \cup { HourOf(clock) + SecondsPerHour - clock } :
        /\ \A q \in Procs :
              \/ inv[q].pc = "idle"
              \/ inv[q].pc = "incr" /\ inv[q].now = clock /\ d = SecondsPerHour
        /\ clock + d <= RateBegin + MaxRateHours * SecondsPerHour
        /\ clock' = clock + d
        /\ last' = NoEvent
        /\ UNCHANGED <<texts, sheet, cache, inv, starts, faults, sent, incrs, alerts, calls, config, debug, reset>>

\* Invocations one after the other over the hours of a day; every call of
\* the counter store is answered
NextRate ==
    \/ TickHour
    \/ \E p \in RateProcs :
         \/ StartRate(p)
         \/ ProcessRow(p)
         \/ Send(p)
         \/ IncrGet(p)
         \/ IncrPut(p)
         \/ Poll(p)
         \/ Finish(p)

\* The counters begin at zero, at 09:00 or at 22:30
InitRate ==
    \/ InitAt({ <<RateSheet, {}>> }, RateT0)
    \/ InitAt({ <<EveningSheet, {}>> }, EveningT0)

SpecRate == InitRate /\ [][NextRate]_vars

\* Two triggers that may overlap work through a sheet of two due entries,
\* the counters beginning at zero; every call of the counter store is answered
NextContend ==
    \E p \in Procs :
        \/ Start(p)
        \/ ProcessRow(p)
        \/ Send(p)
        \/ IncrGet(p)
        \/ IncrPut(p)
        \/ Poll(p)
        \/ Finish(p)

InitContend == InitWith({ <<ContendSheet, {}>> })

SpecContend == InitContend /\ [][NextContend]_vars

\* CacheService drops an entry before its time is up
Evict ==
    /\ \E e \in cache : cache' = cache \ { e }
    /\ last' = NoEvent
    /\ UNCHANGED <<texts, sheet, clock, inv, starts, faults, sent, incrs, alerts, calls, config, debug, reset>>

\* Invocations one after the other over two due entries, with a counter
\* store that may drop any entry at any time and answers every call
NextEvict ==
    \/ Evict
    \/ \E p \in Procs :
         \/ StartAlone(p)
         \/ ProcessRow(p)
         \/ Send(p)
         \/ IncrGet(p)
         \/ IncrPut(p)
         \/ Poll(p)
         \/ Finish(p)

InitEvict == InitWith({ ContendSheet } \X Caches)

SpecEvict == InitEvict /\ [][NextEvict]_vars

\* Entries that must stay as they are: disabled (by FALSE, by an empty cell
\* or by a text that is not a yes), without a message, or without a DateTime;
\* under three rules, scheduled for this minute or for tomorrow's, with
\* three kinds of Last Sent
RestingRows ==
    { Row(c[1], c[2], r, c[3], ls) :
        c \in { <<dt, MsgU, BoolCell(FALSE)>> : dt \in { DateCell(T0 + 15), DateCell(T0 + 86400) } }
              \cup { <<DateCell(T0 + 15), MsgU, EmptyCell>>,
                     <<DateCell(T0 + 15), MsgU, TextCell(<<"n", "o">>)>>,
                     <<DateCell(T0 + 15), << >>, BoolCell(TRUE)>>,
                     <<EmptyCell, MsgU, BoolCell(TRUE)>> },
        r \in { R_ONCE, R_EVERY_MINUTE, R_DAILY },
        ls \in { EmptyCell, DateCell(T0 - 7200), OutcomeText(ERROR_PREFIX, <<"Bad Request">>) } }

\* A daily entry that is due at 19:00
LiveRow == Row(DateCell(T0 + 15), MsgA, R_DAILY, BoolCell(TRUE), EmptyCell)

\* A resting entry above or below the live one
RestingSheets ==
    { << r, LiveRow >> : r \in RestingRows } \cup { << LiveRow, r >> : r \in RestingRows }

InitInert == InitWith(RestingSheets \X { {} })

\* Invocations one after the other over a sheet with a resting entry
SpecInert == InitInert /\ [][NextSeq]_vars

\* One daily entry scheduled at 19:00 sharp and never sent
EndToEndSheets ==
    { << Row(DateCell(T0), m, R_DAILY, BoolCell(TRUE), EmptyCell) >> :
        m \in { MsgZeitslot, MsgBitLy } }

\* The counters begin at zero; the lists are as shipped, or the domain lists
\* are empty, or the required keywords as well
InitEndToEnd ==
    InitUnder({ ShippedConfig, NoDomainLists, EmptyLists },
              EndToEndSheets \X { {} }, T0)

\* Invocations one after the other, every call of the counter store answered
NextEndToEnd ==
    \/ Tick
    \/ \E p \in Procs :
         \/ StartAlone(p)
         \/ ProcessRow(p)
         \/ Send(p)
         \/ IncrGet(p)
         \/ IncrPut(p)
         \/ Poll(p)
         \/ Finish(p)

SpecEndToEnd == InitEndToEnd /\ [][NextEndToEnd]_vars

\* Two or three entries of one content, in one spelling or another, all due
\* at 19:00, never sent or sent thirty hours ago
TwinRows ==
    { Row(DateCell(T0 + 15), m, R_DAILY, BoolCell(TRUE), ls) :
        m \in { MsgA, MsgA2 }, ls \in { EmptyCell, DateCell(T0 - 108000) } }

InitTwins == InitWith(SheetsOver(TwinRows, { 2, 3 }) \X { {} })

\* Invocations one after the other over entries of one content
SpecTwins == InitTwins /\ [][NextEndToEnd]_vars

\* Entries of sheets in which a Message cell holds a number: a due entry
\* and a disabled one with the number, a due entry with a text, and an entry
\* of the same content as that text, sent two hours ago
AbortRows ==
    { Row(DateCell(T0 + 15), MsgNumber, R_DAILY, BoolCell(TRUE), EmptyCell),
      Row(DateCell(T0 + 15), MsgNumber, R_DAILY, BoolCell(FALSE), EmptyCell),
      LiveRow,
      Row(DateCell(T0 - 7200 + 15), MsgA2, R_DAILY, BoolCell(TRUE), DateCell(T0 - 7200)) }

\* Two entries, or three with the number in the middle
AbortSheets ==
    SheetsOver(AbortRows, { 2 })
    \cup { s \in SheetsOver(AbortRows, { 3 }) : s[2].message = MsgNumber }

InitAbort == InitWith(AbortSheets \X { {} })

\* Invocations one after the other; the counter store may fail and
\* detectDuplicateContent may meet a number
NextAbort ==
    \/ Tick
    \/ \E p \in Procs : StartAlone(p) \/ Step(p) \/ DuplicateCheckThrows(p)

SpecAbort == InitAbort /\ [][NextAbort]_vars

(***************************************************************************)
(* debugTest                                                               *)
(***************************************************************************)

DEBUG_TEST_MAX_MESSAGES == 5

\* Runs of debugTest in one behaviour
MaxDebugRuns == 1

\* The rows debugTest collects: a DateTime, a message and enabled
EnabledRows(data) ==
    { i \in 1..Len(data) :
        /\ Truthy(data[i].datetime)
        /\ data[i].message # << >>
        /\ IsEnabled(data[i].enabled) }

\* enabledRows.sort((a, b) => a.start.getTime() - b.start.getTime()): the
\* rows by their DateTime, soonest first, rows of one instant in sheet order
\* (the DateTime cells of the sheets debugTest is run on here hold dates)
RECURSIVE SortedByStart(_, _)
SortedByStart(data, rows) ==
    IF rows = {} THEN << >>
    ELSE LET first ==
                 CHOOSE i \in rows :
                     \A j \in rows :
                         \/ data[i].datetime.t < data[j].datetime.t
                         \/ data[i].datetime.t = data[j].datetime.t /\ i <= j
         IN  << first >> \o SortedByStart(data, rows \ { first })

\* enabledRows.slice(0, DEBUG_TEST_MAX_MESSAGES)
RowsToTest(data) ==
    LET enabledRows == SortedByStart(data, EnabledRows(data))
    IN  SubSeq(enabledRows, 1,
               IF Len(enabledRows) < DEBUG_TEST_MAX_MESSAGES
               THEN Len(enabledRows) ELSE DEBUG_TEST_MAX_MESSAGES)

\* The analysis of one row by debugTest.  start is the DateTime cell as it
\* is, with its seconds; the minute guard only fills the DUPLICATE CHECK
\* line; validateMessage is the one content check.
DebugReport(data, i, now, results) ==
    LET row == data[i]
        start == NewDate(row.datetime)
        lastSent == ParseLastSent(row.lastSent)
        duplicateCheck == IF SentThisMinute(now, lastSent) THEN "BLOCKED" ELSE "PASS"
        shouldSend == ShouldSend(now, start, results.repeat[row.repeat], lastSent)
        validationResult == results.validation[row.message]
        willActuallySend == shouldSend /\ validationResult.isValid
    IN  [row |-> i, now |-> now, duplicateCheck |-> duplicateCheck,
         sendStatus |-> IF willActuallySend THEN "WILL SEND"
                        ELSE IF ~shouldSend THEN "WILL NOT SEND (Schedule)"
                        ELSE "WILL BE BLOCKED (Validation)"]

\* Variant: the analysis goes to the chat the scheduled messages go to
DebugChatProduction == "CHAT_ID"

\* chat_id of the payload of sendDebugMessage
DebugChat == "DEBUG_CHAT_ID"

\* debugTest is run by hand, at any time: it reads the sheet, analyses the
\* upcoming enabled entries at the instant of the clock and posts one
\* message per entry, which the Telegram API accepts or not
DebugTest ==
    /\ debug.runs < MaxDebugRuns
    /\ LET now == setSecondsZero(clock)
           rowsToTest == RowsToTest(sheet)
           reports == [k \in 1..Len(rowsToTest) |->
                          DebugReport(sheet, rowsToTest[k], now, texts)]
       IN  \E ok \in BOOLEAN :
             /\ debug' = [runs |-> debug.runs + 1,
                          reports |-> reports,
                          chats |-> IF ok THEN [k \in 1..Len(reports) |-> DebugChat]
                                    ELSE << >>]
             /\ sent' = IF ok /\ DebugChat = "CHAT_ID"
                        THEN sent \cup { <<reports[k].row, now, 0, HourOf(clock)>> :
                                            k \in 1..Len(reports) }
                        ELSE sent
    /\ last' = NoEvent
    /\ UNCHANGED <<texts, sheet, cache, clock, inv, starts, faults, incrs, alerts, calls, config, reset>>

\* One entry under three rules, due now or in a minute, never sent, sent in
\* this minute, sent two hours ago or failed, with fresh or exhausted
\* counters; or an entry below one of the same content sent two hours ago;
\* or the eight entries of a day
DebugBegin ==
    ({ << Row(dt, m, r, BoolCell(TRUE), ls) >> :
          dt \in { DateCell(T0 + 15), DateCell(T0 + 60) },
          m \in { MsgA, MsgB },
          r \in { R_DAILY, R_EVERY_MINUTE, R_EVERY_2_DAYS },
          ls \in { EmptyCell, DateCell(T0), DateCell(T0 - 7200),
                   OutcomeText(ERROR_PREFIX, <<"Bad Request">>) } }
       \X { {}, CacheWith(3, 3) })
    \cup { << << Row(DateCell(T0 - 7200 + 15), MsgA2, R_DAILY, BoolCell(TRUE),
                     DateCell(T0 - 7200)),
                 LiveRow >>, {} >>,
           << RateSheet, {} >> }

InitDebug == InitWith(DebugBegin)

\* Invocations of the trigger one after the other, every call of the counter
\* store answered, and runs of debugTest
NextDebug == NextEndToEnd \/ DebugTest

SpecDebug == InitDebug /\ [][NextDebug]_vars

(***************************************************************************)
(* resetRateLimit                                                          *)
(***************************************************************************)

\* Runs of resetRateLimit in one behaviour
MaxResets == 1

\* Variant: only the counter of the hour is removed
StoreAfterResetHourOnly(store, t) == { e \in store : e.key # hourKey(t) }

\* cache.remove(hourKey); cache.remove(dayKey): the store without the two
\* counters of the instant t
StoreAfterReset(store, t) ==
    { e \in store : e.key \notin { hourKey(t), dayKey(t) } }

\* resetRateLimit is run by hand, at any time: the keys are built from the
\* clock and both are removed from the cache.  (The legacy keys it deletes
\* from the script properties are read by no other function.)
ResetRateLimit ==
    /\ reset.runs < MaxResets
    /\ cache' = StoreAfterReset(cache, clock)
    /\ reset' = [runs |-> reset.runs + 1, t |-> clock, incrs |-> Len(incrs)]
    /\ last' = [NoEvent EXCEPT !.kind = "reset"]
    /\ UNCHANGED <<texts, sheet, clock, inv, starts, faults, sent, incrs, alerts, calls, config, debug>>

\* Two daily entries due at 19:00, of different content
ResetSheet ==
    [k \in 1..2 |->
        Row(DateCell(T0), NumberedMsg(k), R_DAILY, BoolCell(TRUE), EmptyCell)]

\* The counters begin at zero, one send short of both limits, or with the
\* hourly limit reached
InitReset == InitWith({ ResetSheet } \X Caches)

\* Invocations of the trigger one after the other, every call of the counter
\* store answered, and runs of resetRateLimit
NextReset == NextEndToEnd \/ ResetRateLimit

SpecReset == InitReset /\ [][NextReset]_vars

(***************************************************************************)
(* validateMessage called on its own                                       *)
(***************************************************************************)

\* How a message under test begins: with the required keyword "test" or without any
KeywordParts ==
    { <<"t", "e", "s", "t">>,
      <<"h", "e", "l", "l", "o">> }

\* Nothing, or capital letters enough to make up half of a short message
CapsParts ==
    { << >>,
      <<"Q", "W", "E", "R", "T", "Z", "U", "I", "O", "P", "A", "S", "D", "F", "G", "H", "J", "K", "L", "Y">> }

\* Nothing, or a word followed by three exclamation marks
PunctParts ==
    { << >>,
      <<"h", "e", "y", "!", "!", "!">> }

\* Nothing, a suspicious keyword, ten digits, a letter five times, or a
\* keyword and ten digits
PatternParts ==
    { << >>,
      <<"u", "r", "g", "e", "n", "t">>,
      <<"1", "2", "3", "4", "5", "6", "7", "8", "9", "0">>,
      <<"a", "a", "a", "a", "a">>,
      <<"u", "r", "g", "e", "n", "t", " ", "1", "2", "3", "4", "5", "6", "7", "8", "9", "0">> }

\* No URL, two URLs of domains that are not blocked, and URLs of bit.ly in
\* two spellings and twice
UrlParts ==
    { << >>,
      <<"x", ".", "i", "o">>,
      <<"e", "x", "a", "m", "p", "l", "e", ".", "o", "r", "g", "/", "a">>,
      <<"b", "i", "t", ".", "l", "y", "/", "x">>,
      <<"h", "t", "t", "p", "s", ":", "/", "/", "B", "I", "T", ".", "l", "y", "/", "x">>,
      <<"b", "i", "t", ".", "l", "y", "/", "a", " ", "b", "i", "t", ".", "l", "y", "/", "b">> }

\* The parts that are not empty, with one space between them
RECURSIVE JoinParts(_)
JoinParts(parts) ==
    IF parts = << >> THEN << >>
    ELSE IF Head(parts) = << >> THEN JoinParts(Tail(parts))
    ELSE IF JoinParts(Tail(parts)) = << >> THEN Head(parts)
    ELSE Head(parts) \o << " " >> \o JoinParts(Tail(parts))

\* A message with the keyword and eleven URLs, the last one of bit.ly
ManyUrlsMsg ==
    <<"t", "e", "s", "t", " ", "a", ".", "i", "o", " ", "b", ".", "i", "o", " ", "c", ".", "i", "o", " ", "d", ".", "i", "o", " ", "e", ".", "i", "o", " ", "f", ".", "i", "o", " ", "g", ".", "i", "o", " ", "h", ".", "i", "o", " ", "i", ".", "i", "o", " ", "j", ".", "i", "o", " ", "b", "i", "t", ".", "l", "y", "/", "x">>

\* A message with the keyword and URLs of two blocked domains
TwoBlockedMsg ==
    <<"t", "e", "s", "t", " ", "b", "i", "t", ".", "l", "y", "/", "x", " ", "t", ".", "c", "o", "/", "y">>

\* The messages validateMessage is called with on its own
ValidateInputs ==
    { JoinParts(<<k, c, p, s, u>>) :
        k \in KeywordParts, c \in CapsParts, p \in PunctParts,
        s \in PatternParts, u \in UrlParts }
    \cup { ManyUrlsMsg, TwoBlockedMsg }

\* The messages of the calls made in between
OtherInputs ==
    { JoinParts(<<k, s>>) :
        k \in { <<"t", "e", "s", "t">> }, s \in { <<"h", "e", "y", "!", "!", "!">>, <<"1", "2", "3", "4", "5", "6", "7", "8", "9", "0">>, <<"a", "a", "a", "a", "a">> } }

\* hasSuspiciousPatterns was called: the verdict is one of those given after it
PatternsTested(verdict) ==
    verdict.reason[1] \in { "Suspicious patterns detected",
                            "No URLs found, content validated",
                            "Multiple suspicious patterns detected",
                            "URLs validated" }

\* hasExcessivePunctuation was called
PunctTested(verdict) ==
    \/ PatternsTested(verdict)
    \/ verdict.reason[1] = "Excessive punctuation detected (potential spam)"

\* The lastIndex of the three pattern objects when validateMessage(message)
\* returns with the verdict: that of a pattern whose test was not reached is
\* as before
LastIndexAfter(message, verdict) ==
    [punct |-> IF PunctTested(verdict)
               THEN RegExpTest(message, consecutivePunctPattern, PunctMatchEnds(message)).lastIndex
               ELSE calls.lastIndex.punct,
     number |-> IF PatternsTested(verdict)
                THEN RegExpTest(message, numberPattern, DigitMatchEnds(message)).lastIndex
                ELSE calls.lastIndex.number,
     repeat |-> IF PatternsTested(verdict)
                THEN RegExpTest(message, repeatPattern, RepeatMatchEnds(message)).lastIndex
                ELSE calls.lastIndex.repeat]

\* At most this many calls of validateMessage in a run
MaxCalls == 3

\* Everything but the record of the calls: validateMessage reads and writes
\* none of it
ScriptState ==
    <<texts, sheet, cache, clock, inv, starts, faults, last, sent, incrs, alerts, config, debug, reset>>

\* The first call: validateMessage(m)
ValidateFirst(m) ==
    /\ calls.n = 0
    /\ \E verdict \in { validateMessage(m) } :
         calls' = [n |-> 1, again |-> 0, message |-> m,
                   first |-> verdict, latest |-> verdict,
                   lastIndex |-> LastIndexAfter(m, verdict)]
    /\ UNCHANGED ScriptState

\* A call in between, with another message
ValidateOther(m) ==
    /\ calls.n \in 1..(MaxCalls - 1)
    /\ \E verdict \in { validateMessage(m) } :
         calls' = [calls EXCEPT !.n = @ + 1,
                                !.lastIndex = LastIndexAfter(m, verdict)]
    /\ UNCHANGED ScriptState

\* The message of the first call is validated again
ValidateAgain ==
    /\ calls.n \in 1..(MaxCalls - 1)
    /\ \E verdict \in { validateMessage(calls.message) } :
         calls' = [calls EXCEPT !.n = @ + 1, !.again = @ + 1, !.latest = verdict,
                                !.lastIndex = LastIndexAfter(calls.message, verdict)]
    /\ UNCHANGED ScriptState

NextValidate ==
    \/ \E m \in ValidateInputs : ValidateFirst(m)
    \/ \E m \in OtherInputs : ValidateOther(m)
    \/ ValidateAgain

\* The script is at rest, with any of the counter stores
InitValidate == InitWith({ ContendSheet } \X Caches)

\* Calls of validateMessage alone
SpecValidate == InitValidate /\ [][NextValidate]_vars

\* One entry under one rule, scheduled near or far from today
InitRules ==
    InitWith((SheetsOver(DatedRows \cup RuleRows \cup UnknownRows \cup BadStartRows,
                         { 1 }) \X { {} })
             \cup EdgeBegin)

\* Invocations one after the other, on the sheets of the rules
SpecRules == InitRules /\ [][NextSeq]_vars

(***************************************************************************)
(* Properties                                                              *)
(***************************************************************************)

\* The last step was the loop body's decision about a row
Decided == last.kind = "decision"

\* The snapshot the deciding invocation works on, and the row decided
LastData == inv[last.proc].data

LastRow == LastData[last.row]

\* The row was evaluated: it has a DateTime and a message and is enabled
Considered == Decided /\ last.outcome \notin { "no_datetime", "skipped" }

\* The row was found due: it reached the checks of a message to be sent
Due == Decided /\ last.outcome \in { "duplicate", "invalid", "rate_limited", "send" }

\* A cell holds a timestamp of the calendar minute that begins at now
CellInMinute(cell, now) ==
    cell.kind = "date" /\ cell.t - (cell.t % SecondsPerMinute) = now

\* Row j of a snapshot holds the content of row i in some spelling, and a
\* send timestamp not older than 24 hours at the instant at
SameContent(data, i, j) ==
    /\ data[j].message # << >>
    /\ texts.normalized[data[j].message] = texts.normalized[data[i].message]

SentWithinDay(data, j, at) ==
    data[j].lastSent.kind = "date" /\ data[j].lastSent.t >= at - SecondsPerDay

C2_OncePerMinute == \A s \in sent : s[3] = 1

\* C3: when invocations overlap, still no row is delivered twice in one
\* evaluation minute.
C3_OncePerMinuteOverlapping ==
    \A i \in 1..Len(sheet) :
        Cardinality({ s \in sent : s[1] = i /\ s[2] = setSecondsZero(clock) }) <= 1

C5_OwnRowExcluded ==
    Decided /\ last.outcome = "duplicate"
    => \E j \in 1..Len(LastData) :
          /\ j # last.row
          /\ SameContent(LastData, last.row, j)
          /\ SentWithinDay(LastData, j, last.clock)

\* C6: a due row A is reported as a duplicate whenever some other row B, at
\* any position of the sheet, holds the same content up to case and white
\* space and a send timestamp of the last 24 hours; and the row reported as
\* the cause never holds a timestamp older than 24 hours.
C6_AnyOtherRowDetected ==
    Due =>
      /\ ( \E j \in 1..Len(LastData) :
              /\ j # last.row
              /\ SameContent(LastData, last.row, j)
              /\ SentWithinDay(LastData, j, last.clock) )
         => last.outcome = "duplicate"
      /\ \A j \in 1..Len(LastData) :
            ( /\ j # last.row
              /\ SameContent(LastData, last.row, j)
              /\ LastData[j].lastSent.kind = "date"
              /\ ~SentWithinDay(LastData, j, last.clock) )
            => ~(last.outcome = "duplicate" /\ last.dup = j)

\* C7: a row is never reported as a duplicate because of a row whose Last
\* Sent is a text (ERROR:, BLOCKED:, RATE_LIMITED:): when no row of the same
\* content holds a timestamp, the row is not a duplicate, and the row reported
\* as the cause always holds a timestamp.
C7_OutcomeTextsNoDuplicate ==
    Due =>
      /\ ( \A j \in 1..Len(LastData) :
              SameContent(LastData, last.row, j) => LastData[j].lastSent.kind # "date" )
         => last.outcome # "duplicate"
      /\ last.outcome = "duplicate" => LastData[last.dup].lastSent.kind = "date"

\* A due row went on to the later checks although another row of the same
\* content holds a BLOCKED text
C7_Witness ==
    /\ Due
    /\ last.outcome = "send"
    /\ \E j \in 1..Len(LastData) :
          /\ j # last.row
          /\ SameContent(LastData, last.row, j)
          /\ LastData[j].lastSent =
                OutcomeText(BLOCKED_PREFIX, <<"Duplicate message detected">>)

\* The Repeat cell asks for a single send
IsOneTimeCell(repeat) == repeat \in { R_ONCE, R_DONT_REPEAT }

\* A DateTime cell names the calendar minute of now: same date, hour, minute
SameMinute(cell, now) ==
    cell.kind = "date" /\ cell.t \div SecondsPerMinute = now \div SecondsPerMinute

C9_EveryMinute ==
    Considered /\ LastRow.repeat = R_EVERY_MINUTE
    => (Due <=> ( \/ last.cell.kind # "date"
                  \/ last.now - last.cell.t >= SecondsPerMinute ))

\* C10: an entry whose Last Sent is a text that is no timestamp is evaluated
\* as if its Last Sent were unset.
C10_TextAsUnset ==
    Considered /\ last.cell.kind = "text"
    => (Due <=> ShouldSend(last.now, ParseStart(LastRow.datetime),
                           texts.repeat[LastRow.repeat], Null))
\* The local calendar day and the local minute of the day of an instant
LocalDay(t) == (t + TimezoneOffset(t)) \div SecondsPerDay

LocalMinuteOfDay(t) == ((t + TimezoneOffset(t)) % SecondsPerDay) \div SecondsPerMinute

\* The decided entry has a date in its DateTime cell and was not stopped by
\* the minute guard
Scheduled ==
    /\ Considered
    /\ last.outcome # "same_minute"
    /\ LastRow.datetime.kind = "date"

\* now has the hour and minute of the decided entry's DateTime
SameTimeOfDay == LocalMinuteOfDay(last.now) = LocalMinuteOfDay(LastRow.datetime.t)

\* Whole calendar days from the decided entry's DateTime to now
DaysSinceStart == LocalDay(last.now) - LocalDay(LastRow.datetime.t)

\* The decided entry runs under the rule "every n days", written with digits
UnderEveryNDays(digits) == Scheduled /\ texts.repeat[LastRow.repeat] = EveryNDays(digits)

DueEveryNDays(n) == SameTimeOfDay /\ DaysSinceStart >= 0 /\ DaysSinceStart % n = 0

\* C11: an entry under "every n days" (n = 2, 3, 7, 14) is due exactly when
\* now has the hour and minute of scheduledAt and lies a whole number k >= 0
\* of n-day periods after scheduledAt's day: due at scheduledAt and at
\* scheduledAt + k*n days, not due on other days nor before scheduledAt.
C11_EveryNDays ==
    /\ UnderEveryNDays(<<"2">>) => (Due <=> DueEveryNDays(2))
    /\ UnderEveryNDays(<<"3">>) => (Due <=> DueEveryNDays(3))
    /\ UnderEveryNDays(<<"7">>) => (Due <=> DueEveryNDays(7))
    /\ UnderEveryNDays(<<"1", "4">>) => (Due <=> DueEveryNDays(14))

\* The decided entry runs under the rule of the given (lower-case) name
UnderRule(name) == Scheduled /\ texts.repeat[LastRow.repeat] = name

\* Local weekday (0 = Sunday), day of month and month of an instant
LocalWeekday(t) == (LocalDay(t) + 4) % 7

LocalDate(t) == Civil(LocalDay(t)).date

LocalMonth(t) == Civil(LocalDay(t)).month

SameWeekday == LocalWeekday(last.now) = LocalWeekday(LastRow.datetime.t)

SameDayOfMonth == LocalDate(last.now) = LocalDate(LastRow.datetime.t)

SameMonth == LocalMonth(last.now) = LocalMonth(LastRow.datetime.t)

\* C12: for an entry not sent in the current minute, "daily" is due iff now
\* has scheduledAt's hour and minute; "weekly" iff also its weekday;
\* "monthly" iff also its day of month; "yearly" iff also its day of month
\* and month; a weekday name iff the hour and minute match and today is that
\* weekday.  Whether now is before or after scheduledAt makes no difference.
C12_CalendarRules ==
    /\ UnderRule(<<"d", "a", "i", "l", "y">>) => (Due <=> SameTimeOfDay)
    /\ UnderRule(<<"w", "e", "e", "k", "l", "y">>)
         => (Due <=> SameTimeOfDay /\ SameWeekday)
    /\ UnderRule(<<"m", "o", "n", "t", "h", "l", "y">>)
         => (Due <=> SameTimeOfDay /\ SameDayOfMonth)
    /\ UnderRule(<<"y", "e", "a", "r", "l", "y">>)
         => (Due <=> SameTimeOfDay /\ SameDayOfMonth /\ SameMonth)
    /\ \A d \in 0..6 :
         UnderRule(WeekdayNames[d + 1])
         => (Due <=> SameTimeOfDay /\ LocalWeekday(last.now) = d)

\* A weekly entry scheduled for next week is due today
C12_Witness ==
    /\ UnderRule(<<"w", "e", "e", "k", "l", "y">>)
    /\ Due
    /\ LastRow.datetime.t > last.now

\* The repeat texts the script knows, after trim and lower-casing
RecognizedRules ==
    { << >>, <<"d", "o", "n", "'", "t">>,
      <<"d", "o", "n", "'", "t", " ", "r", "e", "p", "e", "a", "t">>,
      <<"e", "v", "e", "r", "y", " ", "m", "i", "n", "u", "t", "e">>,
      <<"d", "a", "i", "l", "y">>, <<"w", "e", "e", "k", "l", "y">>,
      <<"m", "o", "n", "t", "h", "l", "y">>, <<"y", "e", "a", "r", "l", "y">>,
      <<"e", "v", "e", "r", "y", " ", "2", " ", "d", "a", "y", "s">>,
      <<"e", "v", "e", "r", "y", " ", "3", " ", "d", "a", "y", "s">>,
      <<"e", "v", "e", "r", "y", " ", "7", " ", "d", "a", "y", "s">>,
      <<"e", "v", "e", "r", "y", " ", "1", "4", " ", "d", "a", "y", "s">>,
      <<"m", "o", "n", "d", "a", "y">>, <<"t", "u", "e", "s", "d", "a", "y">>,
      <<"w", "e", "d", "n", "e", "s", "d", "a", "y">>,
      <<"t", "h", "u", "r", "s", "d", "a", "y">>, <<"f", "r", "i", "d", "a", "y">>,
      <<"s", "a", "t", "u", "r", "d", "a", "y">>, <<"s", "u", "n", "d", "a", "y">> }

\* The row the invocation p is at
RowAt(p) == inv[p].data[inv[p].i]

AtRow(p) == inv[p].pc = "loop" /\ inv[p].i <= Len(inv[p].data)

\* The step of p is over with its row: it only moves on to the next row,
\* without a send, a cell written, a counter changed or an error raised
OnlyMovesOn(p) ==
    /\ inv'[p] = [inv[p] EXCEPT !.i = inv[p].i + 1]
    /\ sheet' = sheet
    /\ cache' = cache
    /\ sent' = sent
    /\ faults' = faults

\* C13: an entry whose repeat text, trimmed and lower-cased, is none of the
\* recognized patterns is never due, at any instant and with any Last Sent:
\* the loop body's step for it only moves on to the next row, no error is
\* raised and nothing is written.
C13_UnknownRuleNeverDue ==
    [][\A p \in Procs :
         ( /\ AtRow(p)
           /\ trim(toLowerCase(RowAt(p).repeat)) \notin RecognizedRules
           /\ inv'[p] # inv[p] )
         => /\ OnlyMovesOn(p)
            /\ last'.kind = "decision"
            /\ last'.outcome \in { "no_datetime", "skipped", "same_minute", "not_due" }]_vars

\* An "every 5 days" entry was evaluated five days after its DateTime, at
\* the same time of day, and found not due
C13_Witness ==
    /\ UnderRule(<<"e", "v", "e", "r", "y", " ", "5", " ", "d", "a", "y", "s">>)
    /\ SameTimeOfDay
    /\ DaysSinceStart = 5
    /\ last.outcome = "not_due"

\* The decided entry is enabled, has a message, and its DateTime cell holds a
\* text that is no date
UnparseableStart ==
    /\ Considered
    /\ LastRow.datetime.kind = "text"
    /\ LastRow.datetime.text # << >>

\* C14: an enabled entry whose DateTime cell is not empty but cannot be
\* parsed as a date is never due, under any repeat rule.
C14_UnparseableStartNeverDue == UnparseableStart => ~Due

\* What the loop body decides for the row p is at, were the script clock s
\* seconds into the minute of p's now
OutcomeAtSecond(p, s) ==
    LET e == EvaluateRow(inv[p].data, inv[p].i, inv[p].now, inv[p].now + s, cache, texts)
    IN  <<e.outcome, e.reason>>

\* C15: for an invocation about to evaluate an entry, whatever second of the
\* calendar minute of its now the clock shows, with the same sheet snapshot
\* and the same counter store, the outcome for the entry (send, duplicate,
\* invalid, rate-limited, skip) is the same.
C15_SecondsOffsetIrrelevant ==
    \A p \in Procs :
        AtRow(p) => \A s \in 1..59 : OutcomeAtSecond(p, s) = OutcomeAtSecond(p, 0)

\* Completed calls of incrementRateLimit in the clock hour that begins at h
IncrementsInHour(h) == Cardinality({ k \in 1..Len(incrs) : incrs[k] = h })

\* The decided entry was due and passed the duplicate check and the
\* validation: checkRateLimit was called for it
RateChecked == Decided /\ last.outcome \in { "rate_limited", "send" }

HourlyReason == <<"Rate limit exceeded: this hour">>

\* C16: once incrementRateLimit has been called three times in a clock hour,
\* checkRateLimit called in that hour answers isAllowed = false with the
\* reason of the hourly limit, and an entry evaluated then is not sent but
\* marked as rate-limited.
C16_FourthInHourRefused ==
    /\ IncrementsInHour(HourOf(clock)) >= MAX_MESSAGES_PER_HOUR
         => /\ ~checkRateLimit(cache, clock).isAllowed
            /\ checkRateLimit(cache, clock).reason = HourlyReason
    /\ (RateChecked /\ IncrementsInHour(HourOf(last.clock)) >= MAX_MESSAGES_PER_HOUR)
         => /\ last.outcome = "rate_limited"
            /\ last.reason = HourlyReason

\* A fourth entry was refused after three sends of the same hour
C16_Witness ==
    /\ RateChecked
    /\ IncrementsInHour(HourOf(last.clock)) = MAX_MESSAGES_PER_HOUR
    /\ last.outcome = "rate_limited"
    /\ last.reason = HourlyReason
    /\ LastRow.lastSent = EmptyCell

\* C17: checkRateLimit leaves the counter store as it was: in the step in
\* which an entry's rate limit is checked, whether the answer is allowed or
\* not, every entry of the store keeps its value and its expiry time.
C17_CheckLeavesStore ==
    [][(last'.kind = "decision" /\ last'.outcome \in { "rate_limited", "send" })
         => cache' = cache]_vars

\* An entry was refused with the hour counter at its limit, and the store
\* holds both counters
C17_Witness ==
    /\ RateChecked
    /\ last.outcome = "rate_limited"
    /\ CacheCount(cache, hourKey(last.clock), last.clock) = MAX_MESSAGES_PER_HOUR
    /\ CacheCount(cache, dayKey(last.clock), last.clock) > 0

\* The step completes the call of incrementRateLimit that follows p's send
CompletesIncrement(p) == inv[p].pc = "put" /\ inv'[p].pc = "poll"

\* The hour and the day counter of the instant t both go up by exactly one
BothCountersUpByOne(t) ==
    /\ CacheCount(cache', hourKey(t), clock') = CacheCount(cache, hourKey(t), clock) + 1
    /\ CacheCount(cache', dayKey(t), clock') = CacheCount(cache, dayKey(t), clock) + 1

\* C18: the counters change only on a confirmed successful send.  Calls of
\* the counter store that throw set aside, the store changes only in the step
\* that completes incrementRateLimit after a successful send, and that step
\* raises the hour counter and the day counter by exactly one each; deciding
\* that an entry is skipped, not due, a duplicate, invalid or rate-limited,
\* and a failed send, leave the store as it was.
C18_CountersFollowSends ==
    [][faults' = faults
         => /\ cache' # cache => \E p \in Procs : CompletesIncrement(p)
            /\ \A p \in Procs :
                 CompletesIncrement(p) => BothCountersUpByOne(inv[p].keyTime)]_vars

\* Successful sends made in the clock hour that begins at h
SendsInHour(h) == Cardinality({ s \in sent : s[4] = h })

SendsOnDay(t) == Cardinality({ s \in sent : LocalDay(s[4]) = LocalDay(t) })

\* C20: with invocations one after the other and a counter store that loses
\* nothing before its entries expire, at most MAX_MESSAGES_PER_DAY messages
\* are sent successfully on any one calendar day, over all entries and all
\* invocations of that day.
C20_AtMostFivePerDay ==
    \A s \in sent : SendsOnDay(s[4]) <= MAX_MESSAGES_PER_DAY

\* The step is the loop body's decision to send: checkRateLimit has answered
\* isAllowed = true
PassesCheck == last'.kind = "decision" /\ last'.outcome = "send"

\* C21: check and increment are not one atomic operation.  The step in which
\* an invocation passes checkRateLimit reserves nothing: after it the check
\* still answers isAllowed = true to any other invocation, until a call of
\* incrementRateLimit is completed.  So two overlapping invocations can both
\* pass the check before either increments, and more than
\* MAX_MESSAGES_PER_HOUR messages go out in one clock hour; and the stored
\* hour count is never above the number of messages sent in the hour.
C21_CheckReservesNothing ==
    /\ [][PassesCheck => checkRateLimit(cache', clock').isAllowed]_vars
    /\ [](CacheCount(cache, hourKey(clock), clock) <= SendsInHour(HourOf(clock)))

\* Both invocations have sent their second message of the hour and neither
\* has yet called incrementRateLimit for it: four messages in one hour
C21_Witness ==
    /\ \A p \in Procs : inv[p].pc = "incr" /\ inv[p].i = 2
    /\ SendsInHour(HourOf(clock)) > MAX_MESSAGES_PER_HOUR

\* Completed calls of incrementRateLimit on the local calendar day of t
IncrementsOnDay(t) ==
    Cardinality({ k \in 1..Len(incrs) : LocalDay(incrs[k]) = LocalDay(t) })

\* C22: the buckets roll over by their keys.  As long as no increment has
\* been made in the current clock hour, checkRateLimit sees an hour count of
\* 0, however many sends earlier hours recorded and whether or not their
\* counters are still stored; as long as none has been made on the current
\* calendar day, it sees a day count of 0; and an entry checked in a new
\* hour is sent when the day count is below MAX_MESSAGES_PER_DAY.  No reset
\* step is involved.
C22_BucketsRollOver ==
    /\ IncrementsInHour(HourOf(clock)) = 0
         => checkRateLimit(cache, clock).hourCount = 0
    /\ IncrementsOnDay(clock) = 0
         => checkRateLimit(cache, clock).dayCount = 0
    /\ ( /\ RateChecked
         /\ IncrementsInHour(HourOf(last.clock)) = 0
         /\ CacheCount(cache, dayKey(last.clock), last.clock) < MAX_MESSAGES_PER_DAY )
         => last.outcome = "send"

\* An entry is let through in a new clock hour while the counter of the hour
\* before, at its limit after three sends, is still stored and alive
C22_Witness ==
    /\ RateChecked
    /\ last.outcome = "send"
    /\ IncrementsInHour(HourOf(last.clock)) = 0
    /\ SendsInHour(HourOf(last.clock) - SecondsPerHour) = MAX_MESSAGES_PER_HOUR
    /\ \E e \in cache :
          /\ e.key = hourKey(last.clock - SecondsPerHour)
          /\ e.value = MAX_MESSAGES_PER_HOUR
          /\ e.expires > last.clock

\* The step is a decision taken after checkRateLimit
ChecksRate ==
    last'.kind = "decision" /\ last'.outcome \in { "send", "rate_limited" }

\* C23: a counter that the store has lost counts as zero.  checkRateLimit
\* sees 0 for a key that is absent; with both counters absent, or the hour
\* counter absent and the day count below its limit, the entry is let
\* through; a refusal always rests on a counter that is stored and at its
\* limit.  incrementRateLimit reads 0 for an absent key and stores 1.  The
\* answers are always counts: nothing is raised.
C23_LostCounterCountsZero ==
    /\ [][ChecksRate =>
            /\ Lost(cache, hourKey(clock), clock)
                  => checkRateLimit(cache, clock).hourCount = 0
            /\ Lost(cache, dayKey(clock), clock)
                  => checkRateLimit(cache, clock).dayCount = 0
            /\ ( /\ Lost(cache, hourKey(clock), clock)
                 /\ \/ Lost(cache, dayKey(clock), clock)
                    \/ CacheCount(cache, dayKey(clock), clock) < MAX_MESSAGES_PER_DAY )
                  => last'.outcome = "send"
            /\ last'.outcome = "rate_limited"
                  => \E e \in cache :
                       /\ e.expires > clock
                       /\ \/ e.key = hourKey(clock) /\ e.value >= MAX_MESSAGES_PER_HOUR
                          \/ e.key = dayKey(clock) /\ e.value >= MAX_MESSAGES_PER_DAY]_vars
    /\ [][\A p \in Procs :
            /\ ( /\ inv[p].pc = "incr" /\ inv'[p].pc = "put"
                 /\ Lost(cache, hourKey(clock), clock) )
                  => inv'[p].hourCount = 0
            /\ ( /\ inv[p].pc = "incr" /\ inv'[p].pc = "put"
                 /\ Lost(cache, dayKey(clock), clock) )
                  => inv'[p].dayCount = 0
            /\ ( /\ inv[p].pc = "put" /\ inv'[p].pc = "poll"
                 /\ inv[p].hourCount = 0 )
                  => CacheCount(cache', hourKey(inv[p].keyTime), clock) = 1]_vars
    /\ [](last.kind # "abort" /\ last.outcome # "error_after_send")

\* After three sends had been counted in the hour, the hour counter was lost;
\* the entry has been let through and sent, and the count restarted at 1
\* while the day count went on to 4
C23_Witness ==
    \E p \in Procs :
        /\ inv[p].pc = "poll"
        /\ sent # {}
        /\ CacheCount(cache, hourKey(clock), clock) = 1
        /\ CacheCount(cache, dayKey(clock), clock) = 4

\* The cell holds a text that begins with ERROR:
HoldsError(cell) ==
    /\ cell.kind = "text"
    /\ Len(cell.text) >= Len(ERROR_PREFIX)
    /\ SubSeq(cell.text, 1, Len(ERROR_PREFIX)) = ERROR_PREFIX

\* The step is the send of p's row and the send fails
SendFails(p) ==
    inv[p].pc = "send" /\ last'.kind = "send" /\ last'.outcome = "error"

\* C24: when the send of row i fails, Last Sent of row i becomes a text that
\* begins with ERROR:, one alert for row i goes to the admin with that text
\* and the message, no other cell changes, the counters and the record of
\* sends stay as they are, and the invocation goes on with row i + 1 on the
\* same snapshot and the same now; it ends only after its last row.
C24_SendFailureIsLocal ==
    [][\A p \in RateProcs :
         /\ SendFails(p) =>
               /\ HoldsError(sheet'[inv[p].i].lastSent)
               /\ \A j \in 1..Len(sheet) : j # inv[p].i => sheet'[j] = sheet[j]
               /\ alerts'[p] =
                     Append(alerts[p], [row |-> inv[p].i,
                                        message |-> RowAt(p).message,
                                        reason |-> sheet'[inv[p].i].lastSent.text])
               /\ cache' = cache /\ incrs' = incrs /\ sent' = sent
               /\ inv'[p] = [inv[p] EXCEPT !.pc = "loop", !.i = inv[p].i + 1]
         /\ (inv[p].pc # "idle" /\ inv'[p].pc = "idle")
               => inv[p].i > Len(inv[p].data)]_vars

\* The sends of the first three entries have failed; the fourth entry is
\* evaluated in the same invocation, finds the counters untouched and is sent
C24_Witness ==
    /\ starts = 1
    /\ \A j \in 1..3 : HoldsError(sheet[j].lastSent)
    /\ last.kind = "send" /\ last.outcome = "sent" /\ last.row = 4
    /\ Len(alerts[last.proc]) = 3

\* The cell holds one of the outcome texts of the scheduler
HoldsOutcome(cell) ==
    /\ cell.kind = "text"
    /\ \E prefix \in { ERROR_PREFIX, BLOCKED_PREFIX, RATE_LIMITED_PREFIX } :
          /\ Len(cell.text) >= Len(prefix)
          /\ SubSeq(cell.text, 1, Len(prefix)) = prefix

\* In this step something fails while p works on its row: the send, or a
\* call of the counter store
FailsAtRow(p) ==
    /\ last'.proc = p
    /\ \/ last'.kind = "abort"
       \/ last'.kind = "send" /\ last'.outcome \in { "error", "error_after_send" }

\* C25: no failure is fatal or silent.  Whenever something fails while an
\* entry is processed, the step either leaves the invocation at work on that
\* entry (the failure is recovered on the spot) or writes an outcome text
\* (ERROR:, BLOCKED:, RATE_LIMITED:) into Last Sent of that entry and goes on
\* with the next; and an invocation ends only after its last row.
C25_NoFailureFatalOrSilent ==
    [][\A p \in Procs :
         /\ FailsAtRow(p) =>
               \/ inv'[p].pc # "idle" /\ inv'[p].i = inv[p].i
               \/ /\ inv'[p].pc = "loop" /\ inv'[p].i = inv[p].i + 1
                  /\ HoldsOutcome(sheet'[inv[p].i].lastSent)
         /\ (inv[p].pc # "idle" /\ inv'[p].pc = "idle")
               => inv[p].i > Len(inv[p].data)]_vars

\* p has sent the message of its row and has not yet gone on to the next row
AfterSend(p) == inv[p].pc \in { "incr", "put", "poll" }

\* What ends the handling of a sent entry is the poll step: the poll is
\* attempted exactly when the message held a URL, and the step leaves the
\* send timestamp in Last Sent and the counters with their one increment
EndsWithPoll(p) ==
    /\ inv[p].pc = "poll"
    /\ last'.kind = "poll"
    /\ last'.outcome \in { "poll_sent", "poll_failed" } <=> inv[p].urls
    /\ sheet'[inv[p].i].lastSent = DateCell(inv[p].now)
    /\ cache' = cache
    /\ incrs' = incrs

\* C26: after a successful send the helper poll is attempted if and only if
\* the validated message held at least one URL, and whether it goes out or
\* not, Last Sent stays the send timestamp and the counters keep the single
\* increment of the send.
C26_PollIffUrl ==
    [][\A p \in Procs :
         (AfterSend(p) /\ inv'[p].pc = "loop") => EndsWithPoll(p)]_vars

\* In this step p's entry is blocked, as a duplicate, by the validation or by
\* the rate limit, or its send fails
BlockedOrErrored(p) ==
    /\ last'.proc = p
    /\ \/ /\ last'.kind = "decision"
          /\ last'.outcome \in { "duplicate", "invalid", "rate_limited" }
       \/ last'.kind = "send" /\ last'.outcome = "error"

\* The alerts of p's invocation grow by one or stay as they are, according
\* to what the step did with p's entry
AlertsFollow(p) ==
    IF BlockedOrErrored(p)
    THEN alerts'[p] = Append(alerts[p], [row |-> inv[p].i,
                                         message |-> RowAt(p).message,
                                         reason |-> sheet'[inv[p].i].lastSent.text])
    ELSE alerts'[p] = alerts[p]

\* C27: while an invocation runs, a step in which its entry is blocked or its
\* send fails adds exactly one alert, for that row, with the reason stored in
\* Last Sent and the whole message; every other step, among them successful
\* sends and entries found not due, adds none.
C27_OneAlertPerBlockOrError ==
    [][\A p \in Procs :
         (inv[p].pc # "idle" /\ inv'[p].pc # "idle") => AlertsFollow(p)]_vars

BitLy == <<"b", "i", "t", ".", "l", "y">>

\* What the stages of validateMessage find in the message under test: the
\* domains of its URLs, whether it holds a required keyword, the two
\* heuristics and the suspicious patterns
MessageFacts ==
    [domains |-> DomainsOf(extractUrls(calls.message)),
     keyword |-> hasRequiredKeywords(calls.message).hasRequired,
     caps |-> hasExcessiveCaps(calls.message),
     punct |-> hasExcessivePunctuation(calls.message),
     patterns |-> hasSuspiciousPatterns(calls.message).patterns]

\* validateMessage has been called with a message of at most 4096 characters
\* that holds a URL whose domain is bit.ly
BitLyValidated(facts) ==
    /\ calls.n > 0
    /\ Len(calls.message) <= MAX_MESSAGE_LENGTH
    /\ \E k \in 1..Len(facts.domains) : facts.domains[k] = BitLy

\* The message passes the checks made before the blocklist: it holds a
\* required keyword and no more than ten URLs
ReachesBlocklist(facts) ==
    facts.keyword /\ Len(facts.domains) <= MAX_URLS_PER_MESSAGE

\* C28, as stated: every message of at most 4096 characters with a URL of
\* bit.ly gets isValid = false and blockedDomains = ['bit.ly'], with or
\* without a required keyword and with or without excessive capitalization.
C28_BitLyAlwaysListed ==
    \A facts \in { MessageFacts } :
        BitLyValidated(facts) =>
            /\ ~calls.latest.isValid
            /\ calls.latest.blockedDomains = << BitLy >>

\* C28, amended: every message of at most 4096 characters with a URL of
\* bit.ly gets isValid = false, with or without excessive capitalization.
\* When it holds a required keyword and at most ten URLs, the reason is that
\* of the blocked domains and blockedDomains lists bit.ly once for each URL
\* of that domain; without a required keyword, or with more than ten URLs,
\* blockedDomains is empty.
C28_BitLyRejected ==
    \A facts \in { MessageFacts } :
        BitLyValidated(facts) =>
            /\ ~calls.latest.isValid
            /\ IF ReachesBlocklist(facts)
               THEN /\ calls.latest.reason[1] = "Blocked domain(s) detected"
                    /\ Count(calls.latest.blockedDomains, LAMBDA d : d = BitLy)
                         = Count(facts.domains, LAMBDA d : d = BitLy)
               ELSE calls.latest.blockedDomains = << >>

\* A message in capitals with the keyword and one URL of bit.ly has been
\* rejected for the blocked domain
C28_Witness ==
    \E facts \in { MessageFacts } :
        /\ BitLyValidated(facts)
        /\ facts.caps
        /\ calls.latest.reason[1] = "Blocked domain(s) detected"
        /\ calls.latest.blockedDomains = << BitLy >>

\* validateMessage has been called with a message that reaches the spam
\* checks of messages with URLs: it holds a required keyword and between one
\* and ten URLs, none of a blocked domain
UrlsChecked(facts) ==
    /\ calls.n > 0
    /\ Len(calls.message) <= MAX_MESSAGE_LENGTH
    /\ facts.keyword
    /\ Len(facts.domains) \in 1..MAX_URLS_PER_MESSAGE
    /\ BlockedAmong(facts.domains, 1, 1) = << >>

\* How many of the heuristics hit: capitals, punctuation, and each pattern
HeuristicHits(facts) ==
    (IF facts.caps THEN 1 ELSE 0) + (IF facts.punct THEN 1 ELSE 0)
    + Len(facts.patterns)

\* The detail is among the validationDetails of the verdict
Recorded(detail) ==
    \E k \in 1..Len(calls.latest.validationDetails) :
        calls.latest.validationDetails[k] = detail

\* Every hit of the heuristics is among the validationDetails, and nothing
\* is recorded for a heuristic that did not hit
HitsRecorded(facts) ==
    /\ facts.caps <=> Recorded(<<"Excessive capitalization detected">>)
    /\ facts.punct <=> Recorded(<<"Excessive punctuation detected">>)
    /\ \A j \in 1..Len(facts.patterns) : Recorded(facts.patterns[j])

\* C29, as stated: for a message with URLs and no blocked domain, two or
\* more hits among capitals, punctuation and the suspicious patterns give
\* isValid = false with a combined reason; exactly one hit gives
\* isValid = true and is recorded in validationDetails.
C29_TwoHitsBlock ==
    \A facts \in { MessageFacts } :
        UrlsChecked(facts) =>
            /\ HeuristicHits(facts) >= 2
                  => /\ ~calls.latest.isValid
                     /\ calls.latest.reason[1] = "Multiple suspicious patterns detected"
            /\ HeuristicHits(facts) = 1
                  => calls.latest.isValid /\ HitsRecorded(facts)

\* C29, amended: for a message with URLs and no blocked domain the verdict
\* is isValid = false, with the reason that names the patterns, exactly when
\* hasSuspiciousPatterns finds two or more patterns.  Excessive capitals and
\* excessive punctuation never block.  Every hit, of either heuristic or of
\* a pattern, is recorded in validationDetails, blocked or not.
C29_TwoPatternsBlock ==
    \A facts \in { MessageFacts } :
        UrlsChecked(facts) =>
            /\ ~calls.latest.isValid <=> Len(facts.patterns) >= 2
            /\ ~calls.latest.isValid
                  => calls.latest.reason
                       = <<"Multiple suspicious patterns detected", facts.patterns>>
            /\ HitsRecorded(facts)

\* A message with a URL, in capitals, with three exclamation marks and one
\* suspicious keyword has been found valid, its three hits recorded
C29_Witness ==
    \E facts \in { MessageFacts } :
        /\ UrlsChecked(facts)
        /\ facts.caps /\ facts.punct /\ Len(facts.patterns) = 1
        /\ calls.latest.isValid
        /\ Len(calls.latest.validationDetails) = 4

\* C30: validateMessage is deterministic and free of side effects.  However
\* often it is called with a message, and whatever other messages it is
\* called with in between, the verdict equals the first one in every field;
\* and a call changes nothing of the sheet, the counter store or the state
\* of an invocation.
C30_SameVerdictEveryCall ==
    /\ [](calls.n > 0 => calls.latest = calls.first)
    /\ [][calls' # calls => UNCHANGED ScriptState]_vars

\* A message with a URL, a suspicious keyword and ten digits has been
\* validated, another message after it, and then the first one again: both
\* times it was rejected for its two patterns
C30_Witness ==
    /\ calls.n = 3
    /\ calls.again = 1
    /\ calls.lastIndex.number > 0
    /\ ~calls.latest.isValid
    /\ calls.latest.reason[1] = "Multiple suspicious patterns detected"
    /\ Len(calls.latest.foundUrls) = 1

\* The entry of the end-to-end example is decided on: 'test zeitslot', daily,
\* scheduled at the minute of now, Last Sent empty
ExampleDecided ==
    /\ last.kind = "decision"
    /\ sheet[1].message = MsgZeitslot
    /\ last.cell = EmptyCell
    /\ last.now = sheet[1].datetime.t

\* The send of the example has succeeded and incrementRateLimit has returned
ExampleCounted(p) ==
    /\ inv[p].pc = "poll"
    /\ sheet[1].message = MsgZeitslot

\* C31 as stated: the example entry is sent, with the lists as shipped and
\* with empty lists alike.
C31_ExampleSentUnderAnyLists ==
    ExampleDecided => last.outcome = "send"

\* C31: with empty rate counters and a succeeding transport the example entry
\* is sent in the invocation that finds it at its minute; afterwards Last
\* Sent is now without seconds and both counters are 1.  The same holds when
\* the domain lists are empty.  With an empty list of required keywords the
\* entry is blocked for missing keywords instead, and no counter is written.
C31_ExampleSentUnlessNoKeywords ==
    /\ ExampleDecided /\ config.REQUIRED_KEYWORDS # << >> => last.outcome = "send"
    /\ ExampleDecided /\ config.REQUIRED_KEYWORDS = << >> =>
          /\ last.outcome = "invalid"
          /\ last.reason = <<"Message does not contain any required keywords">>
          /\ cache = {}
    /\ \A p \in Procs :
          ExampleCounted(p) =>
            /\ sheet[1].lastSent = DateCell(inv[p].now)
            /\ inv[p].now = sheet[1].datetime.t
            /\ CacheCount(cache, hourKey(clock), clock) = 1
            /\ CacheCount(cache, dayKey(clock), clock) = 1

\* The example entry has been sent and counted with empty domain lists
C31_Witness ==
    /\ config = NoDomainLists
    /\ \E p \in Procs : ExampleCounted(p)
    /\ sheet[1].lastSent = DateCell(T0)
    /\ Cardinality(sent) = 1

\* The entry is disabled, or has no message, or has no DateTime
Inert(row) ==
    \/ row.enabled \in { BoolCell(FALSE), EmptyCell, TextCell(<<"n", "o">>) }
    \/ row.message = << >>
    \/ row.datetime = EmptyCell

\* The alerts made for row i
AlertsFor(log, i) == SelectSeq(log, LAMBDA a : a.row = i)

\* C32: an entry that is disabled, or has no message, or has no DateTime is
\* inert whatever its rule, time and Last Sent.  No step sends it, writes its
\* Last Sent or alerts the admin about it, and the step that decides on it
\* skips it and leaves the counters alone.
C32_InertEntries ==
    [][\A i \in 1..Len(sheet) :
          Inert(sheet[i]) =>
            /\ sheet'[i] = sheet[i]
            /\ \A s \in sent' : s[1] # i
            /\ \A p \in Procs : AlertsFor(alerts'[p], i) = << >>
            /\ last'.kind # "none" /\ last'.row = i =>
                  /\ last'.kind = "decision"
                  /\ last'.outcome \in { "no_datetime", "skipped" }
                  /\ cache' = cache
                  /\ incrs' = incrs]_vars

\* A disabled every-minute entry scheduled for this minute has been skipped
\* after the entry above it was sent
C32_Witness ==
    /\ last.kind = "decision"
    /\ last.row = 2
    /\ last.outcome = "skipped"
    /\ sheet[2].enabled = BoolCell(FALSE)
    /\ sheet[2].repeat = R_EVERY_MINUTE
    /\ sheet[2].datetime = DateCell(T0 + 15)
    /\ sheet[2].lastSent = EmptyCell
    /\ sent # {}

\* What sendScheduledMessages decides for row i of the sheet at this instant
\* and in this state of the sheet and the counters
MainWouldSend(i) ==
    EvaluateRow(sheet, i, setSecondsZero(clock), clock, cache, texts).outcome = "send"

\* C33: what debugTest reports for an entry, WILL SEND or not, is what
\* sendScheduledMessages would decide for that entry at the same instant and
\* in the same state of the sheet and the counters.
C33_DebugAgreesWithMain ==
    [][debug' # debug =>
         \A k \in 1..Len(debug'.reports) :
             (debug'.reports[k].sendStatus = "WILL SEND")
                 <=> MainWouldSend(debug'.reports[k].row)]_vars

\* C38: debugTest is an analysis only.  A run posts nothing to the chat of
\* the scheduled messages, writes no cell of the sheet, and neither stores
\* nor increments a counter.
C38_DebugOnlyAnalyses ==
    [][debug' # debug =>
         /\ sent' = sent
         /\ \A k \in 1..Len(debug'.chats) : debug'.chats[k] # "CHAT_ID"
         /\ sheet' = sheet
         /\ cache' = cache
         /\ incrs' = incrs]_vars

\* debugTest has reported WILL SEND for a due entry with one send left in
\* no counter, and its message has reached the debug chat
C38_Witness ==
    /\ debug.runs = 1
    /\ Len(debug.reports) = 1
    /\ debug.reports[1].sendStatus = "WILL SEND"
    /\ debug.chats = << DebugChat >>
    /\ sheet[1].lastSent = EmptyCell
    /\ cache = CacheWith(3, 3)
    /\ sent = {}

\* An invocation decides on row j after it has sent row i, of the same
\* normalized content, earlier in the same pass; in the rows it read when it
\* began, no entry of that content had been sent within the last day
DecidesAfterTwin(i, j) ==
    /\ last.kind = "decision"
    /\ last.row = j
    /\ i < j
    /\ SameContent(sheet, i, j)
    /\ \E s \in sent : s[1] = i /\ s[2] = last.now
    /\ sheet[i].lastSent = DateCell(last.now)
    /\ \A k \in 1..Len(sheet) :
          SameContent(sheet, k, j) => ~SentWithinDay(inv[last.proc].data, k, last.clock)

\* C34: the duplicate detector works on the rows as they were read when the
\* pass began.  The send of row i earlier in the pass is not seen when a
\* later row j of the same normalized content is checked: with no recent
\* sends in the sheet, row j passes the duplicate check and is sent too.
C34_SnapshotHidesSends ==
    \A i, j \in 1..Len(sheet) :
        DecidesAfterTwin(i, j) => last.outcome = "send"

\* Both entries of a sheet of two have been sent in one pass
C34_Witness ==
    /\ Len(sheet) = 2
    /\ \E p \in Procs : inv[p].pc = "poll" /\ inv[p].i = 2 /\ starts = 1
    /\ sheet[1].message = MsgA /\ sheet[2].message = MsgA2
    /\ sheet[1].lastSent = DateCell(T0)
    /\ sheet[2].lastSent = DateCell(T0)
    /\ Cardinality(sent) = 2

\* The row the invocation is at is enabled and due, and its Message cell
\* holds a number
AtDueNumber(p) ==
    /\ inv[p].pc = "loop"
    /\ inv[p].i <= Len(inv[p].data)
    /\ LET row == inv[p].data[inv[p].i]
           lastSent == ParseLastSent(row.lastSent)
       IN  /\ Truthy(row.datetime)
           /\ IsEnabled(row.enabled)
           /\ row.message = MsgNumber
           /\ ~SentThisMinute(inv[p].now, lastSent)
           /\ ShouldSend(inv[p].now, ParseStart(row.datetime),
                         texts.repeat[row.repeat], lastSent)

\* C35: an exception raised outside the try of the send while row i is
\* processed ends the whole pass.  The step in which it is raised leaves
\* the invocation finished, writes no outcome for row i and touches no row,
\* no counter and no chat; a due entry whose Message cell is a number raises
\* one.
C35_ExceptionEndsPass ==
    /\ [][\A p \in Procs :
             inv[p].pc = "loop" /\ last'.kind = "abort" /\ last'.proc = p =>
               /\ inv'[p] = Idle
               /\ last'.row = inv[p].i
               /\ sheet' = sheet
               /\ sent' = sent
               /\ cache' = cache
               /\ incrs' = incrs
               /\ alerts'[p] = << >>]_vars
    /\ [][\A p \in Procs :
             AtDueNumber(p) /\ inv'[p] # inv[p] => last'.kind = "abort"]_vars

\* The pass has ended at row 2, a due entry with a number for a message,
\* after row 1 was sent: row 2 has no outcome and row 3, due as well, was
\* not looked at
C35_Witness ==
    /\ last.kind = "abort"
    /\ last.row = 2
    /\ Len(sheet) = 3
    /\ sheet[1].lastSent = DateCell(T0)
    /\ sheet[2].message = MsgNumber /\ sheet[2].lastSent = EmptyCell
    /\ sheet[3] = LiveRow
    /\ \A p \in Procs : inv[p].pc = "idle"

\* The invocation is at a row whose Last Sent, as read when the pass began,
\* holds an ERROR: text, and decides on it in this step
DecidesOnError(p) ==
    /\ inv[p].pc = "loop"
    /\ inv[p].i <= Len(inv[p].data)
    /\ HoldsError(inv[p].data[inv[p].i].lastSent)
    /\ last'.kind = "decision"
    /\ last'.proc = p

\* C36 as stated: an entry whose Last Sent holds an ERROR: text is retried
\* whenever its rule is due.
C36_ErrorAlwaysRetried ==
    [][\A p \in Procs :
          DecidesOnError(p) /\ last'.outcome \notin { "skipped", "not_due" } =>
            last'.outcome = "send"]_vars

\* C36: an entry whose Last Sent holds an ERROR: text is evaluated as never
\* sent.  The minute guard does not apply, and the decision is the one the
\* same entry would get with an empty Last Sent: it is retried when its rule
\* is due and the duplicate check, the validation and the rate limit pass.
\* When the Telegram API accepts the retry, the send timestamp is written
\* over the error text.
C36_ErrorAsNeverSent ==
    /\ [][\A p \in Procs :
             DecidesOnError(p) =>
               /\ last'.outcome # "same_minute"
               /\ last'.outcome =
                     EvaluateRow(SetLastSent(inv[p].data, inv[p].i, EmptyCell),
                                 inv[p].i, inv[p].now, clock, cache, texts).outcome]_vars
    /\ [](last.kind = "send" /\ last.outcome = "sent" /\ HoldsError(last.cell)
             => sheet[last.row].lastSent = DateCell(last.now))

\* A send failed, and the invocation after it, in the same minute, has sent
\* the entry: the timestamp stands where the error text stood
C36_Witness ==
    /\ starts = 2
    /\ clock < T0 + SecondsPerMinute
    /\ last.kind = "send"
    /\ last.outcome = "sent"
    /\ HoldsError(last.cell)
    /\ sheet[last.row].lastSent = DateCell(T0)
    /\ Cardinality(sent) = 1

\* The cell holds a text that begins with the prefix
HoldsPrefix(cell, prefix) ==
    /\ cell.kind = "text"
    /\ Len(cell.text) >= Len(prefix)
    /\ SubSeq(cell.text, 1, Len(prefix)) = prefix

\* The pass of p found row i due: the row was not skipped, the minute guard
\* did not hold it back and its rule matched
FoundDue(p, i) ==
    /\ i <= Len(inv[p].data)
    /\ EvaluateRow(inv[p].data, i, inv[p].now, clock, cache, texts).outcome
          \notin { "no_datetime", "skipped", "same_minute", "not_due" }

\* The step is a setValue of p on the Last Sent of its row
WritesLastSent(p) ==
    /\ last'.proc = p
    /\ \/ last'.kind = "decision"
          /\ last'.outcome \in { "duplicate", "invalid", "rate_limited" }
       \/ last'.kind = "send"

\* One of the four values the script stores in Last Sent
OneOfFourOutcomes(cell, now) ==
    \/ cell = DateCell(now)
    \/ HoldsPrefix(cell, ERROR_PREFIX)
    \/ HoldsPrefix(cell, BLOCKED_PREFIX)
    \/ HoldsPrefix(cell, RATE_LIMITED_PREFIX)

\* Last Sent changes only in a setValue of the pass on the row it is at, the
\* row was found due and the value is one of the four outcomes
WrittenWhenDue ==
    \A i \in 1..Len(sheet) :
        sheet'[i] # sheet[i] =>
            \E p \in Procs :
                /\ WritesLastSent(p)
                /\ inv[p].i = i
                /\ FoundDue(p, i)
                /\ sheet'[i] = [sheet[i] EXCEPT !.lastSent = sheet'[i].lastSent]
                /\ OneOfFourOutcomes(sheet'[i].lastSent, inv[p].now)

\* C37: sendScheduledMessages writes the Last Sent of an entry only when the
\* entry was found due in this evaluation, with the send timestamp (now
\* without seconds) or an ERROR:, BLOCKED: or RATE_LIMITED: text, and it
\* writes it once: no setValue follows the one that stored the timestamp.
\* Entries that are not due or held back by the minute guard keep their
\* Last Sent.
C37_WrittenOnceWhenDue ==
    [][/\ WrittenWhenDue
       /\ \A p \in Procs :
            WritesLastSent(p) => inv[p].pc \in { "loop", "send" }]_vars

\* The part of C37 that holds whatever the counter store does: what is
\* written, and for which entries
C37_WrittenOnlyWhenDue == [][WrittenWhenDue]_vars

\* resetRateLimit has run, the clock hour is still the one it ran in and no
\* call of incrementRateLimit has completed since
JustReset ==
    /\ reset.runs > 0
    /\ HourOf(clock) = HourOf(reset.t)
    /\ Len(incrs) = reset.incrs

\* C40: after resetRateLimit, checkRateLimit in the same clock hour answers
\* allowed with hourCount = 0 and dayCount = 0, whatever the counters held
\* before, until the next call of incrementRateLimit completes; and
\* resetRateLimit leaves the sheet as it is.
C40_ResetClearsCounters ==
    /\ [](JustReset =>
            /\ checkRateLimit(cache, clock).isAllowed
            /\ checkRateLimit(cache, clock).hourCount = 0
            /\ checkRateLimit(cache, clock).dayCount = 0)
    /\ [][reset' # reset => sheet' = sheet]_vars

\* An entry that was refused for the hourly limit passes the check after
\* resetRateLimit has run
C40_Witness ==
    /\ JustReset
    /\ last.kind = "decision"
    /\ last.outcome = "send"
    /\ HoldsPrefix(last.cell, RATE_LIMITED_PREFIX)

\* Whether the decided entry, as it is, would be due under another rule
DueUnder(rule) ==
    ShouldSend(last.now, ParseStart(LastRow.datetime), rule, ParseLastSent(last.cell))

WeeklyName == <<"w", "e", "e", "k", "l", "y">>

\* now is not earlier than the decided entry's DateTime
NotBeforeStart == last.now >= LastRow.datetime.t

\* C39: for one scheduledAt and any instant, an entry that is due under
\* "every 7 days" is due under "weekly" too, and an entry that is due under
\* "weekly" at an instant not earlier than scheduledAt is due under "every 7
\* days" too: the two rules differ only before scheduledAt.
C39_WeeklyAndEvery7Days ==
    /\ UnderEveryNDays(<<"7">>) =>
         /\ Due => DueUnder(WeeklyName)
         /\ DueUnder(WeeklyName) /\ NotBeforeStart => Due
    /\ UnderRule(WeeklyName) =>
         /\ DueUnder(EveryNDays(<<"7">>)) => Due
         /\ Due /\ NotBeforeStart => DueUnder(EveryNDays(<<"7">>))

====
